---- MODULE Spec2Model ----
(***************************************************************************)
(* Query safety gate of tallydash (utils/security.py) and the data-access  *)
(* layer that calls it (database/connection.py).                           *)
(*                                                                         *)
(* A Python str is modelled as a sequence of one-character strings, so     *)
(* that upper(), strip(), the substring test and the regular expressions   *)
(* are computed character by character as the code computes them.          *)
(***************************************************************************)
EXTENDS Integers, Sequences, FiniteSets, TLC

(***************************************************************************)
(* Characters and the str / re primitives used by security.py              *)
(***************************************************************************)

LowerLetters == <<"a", "b", "c", "d", "e", "f", "g", "h", "i", "j", "k", "l", "m", "n", "o", "p", "q", "r", "s", "t", "u", "v", "w", "x", "y", "z">>

UpperLetters == <<"A", "B", "C", "D", "E", "F", "G", "H", "I", "J", "K", "L", "M", "N", "O", "P", "Q", "R", "S", "T", "U", "V", "W", "X", "Y", "Z">>

\* the grave accent character (U+0060), written by name
Backtick == "GRAVE"

Digits == {"0", "1", "2", "3", "4", "5", "6", "7", "8", "9"}

\* str.upper() on one character (ASCII)
UpperMap ==
    [c \in {LowerLetters[i] : i \in 1..26} |->
        UpperLetters[CHOOSE i \in 1..26 : LowerLetters[i] = c]]

UpperChar(c) == IF c \in DOMAIN UpperMap THEN UpperMap[c] ELSE c

\* str.upper()
upper(s) == [i \in 1..Len(s) |-> UpperChar(s[i])]

\* whitespace as seen by str.strip() and by \s
IsSpace(c) == c \in {" ", "\t", "\n", "\r", "\f"}

\* \w
WordChars ==
    Digits \cup {"_"} \cup {LowerLetters[i] : i \in 1..26}
           \cup {UpperLetters[i] : i \in 1..26}

IsWord(c) == c \in WordChars

\* str.strip()
strip(s) ==
    IF \A i \in 1..Len(s) : IsSpace(s[i])
    THEN << >>
    ELSE LET first == CHOOSE i \in 1..Len(s) :
                         /\ ~IsSpace(s[i])
                         /\ \A j \in 1..(i-1) : IsSpace(s[j])
             last  == CHOOSE i \in 1..Len(s) :
                         /\ ~IsSpace(s[i])
                         /\ \A j \in (i+1)..Len(s) : IsSpace(s[j])
         IN  SubSeq(s, first, last)

\* sub occurs in s at position i
At(s, sub, i) ==
    /\ i >= 1
    /\ i + Len(sub) - 1 <= Len(s)
    /\ \A k \in 1..Len(sub) : s[i + k - 1] = sub[k]

\* sub in s
Contains(s, sub) == \E i \in 1..(Len(s) - Len(sub) + 1) : At(s, sub, i)

\* str.startswith
startswith(s, prefix) == At(s, prefix, 1)

\* sub occurs in s at position i, compared as re.IGNORECASE compares
AtI(s, sub, i) ==
    /\ i >= 1
    /\ i + Len(sub) - 1 <= Len(s)
    /\ \A k \in 1..Len(sub) : UpperChar(s[i + k - 1]) = UpperChar(sub[k])

\* re.search of a literal, re.IGNORECASE
SearchI(s, sub) == \E i \in 1..(Len(s) - Len(sub) + 1) : AtI(s, sub, i)

\* .* can span positions a..b: . matches anything but a newline
DotStar(s, a, b) == \A k \in a..b : s[k] # "\n"

\* re.search of x.*y, re.IGNORECASE
SearchDotStarI(s, x, y) ==
    \E i \in 1..Len(s) :
        /\ AtI(s, x, i)
        /\ \E j \in (i + Len(x))..Len(s) :
              /\ AtI(s, y, j)
              /\ DotStar(s, i + Len(x), j - 1)

\* \b at the gap before position i (between s[i-1] and s[i])
WordBoundary(s, i) ==
    LET before == i > 1 /\ i - 1 <= Len(s) /\ IsWord(s[i - 1])
        after  == i >= 1 /\ i <= Len(s) /\ IsWord(s[i])
    IN  before # after

\* \bw\b matches at position i, re.IGNORECASE
WordAtI(s, w, i) ==
    /\ AtI(s, w, i)
    /\ WordBoundary(s, i)
    /\ WordBoundary(s, i + Len(w))

\* re.search of \bw\b.*=.*\bw\b, re.IGNORECASE
SearchTautologyI(s, w) ==
    \E i \in 1..Len(s) :
        /\ WordAtI(s, w, i)
        /\ \E e \in (i + Len(w))..Len(s) :
              /\ s[e] = "="
              /\ \E j \in (e + 1)..Len(s) :
                    /\ WordAtI(s, w, j)
                    /\ DotStar(s, i + Len(w), j - 1)

\* re.search of 1\s*=\s*1
SearchOneEqOne(s) ==
    \E i \in 1..Len(s) :
        /\ s[i] = "1"
        /\ \E e \in (i + 1)..Len(s) :
              /\ s[e] = "="
              /\ \A k \in (i + 1)..(e - 1) : IsSpace(s[k])
              /\ \E j \in (e + 1)..Len(s) :
                    /\ s[j] = "1"
                    /\ \A k \in (e + 1)..(j - 1) : IsSpace(s[k])

(***************************************************************************)
(* security.py: the deny-list, the injection patterns, the allow-list      *)
(***************************************************************************)

DANGEROUS_KEYWORDS ==
    << <<"D", "R", "O", "P">>, <<"D", "E", "L", "E", "T", "E">>, <<"I", "N", "S", "E", "R", "T">>, <<"U", "P", "D", "A", "T", "E">>, <<"A", "L", "T", "E", "R">>, <<"C", "R", "E", "A", "T", "E">>,
       <<"T", "R", "U", "N", "C", "A", "T", "E">>, <<"E", "X", "E", "C">>, <<"E", "X", "E", "C", "U", "T", "E">>, <<"S", "H", "U", "T", "D", "O", "W", "N">>, <<"G", "R", "A", "N", "T">>,
       <<"R", "E", "V", "O", "K", "E">>, <<"D", "E", "N", "Y">>, <<"S", "P", "_">>, <<"X", "P", "_">>, <<"O", "P", "E", "N", "R", "O", "W", "S", "E", "T">>,
       <<"O", "P", "E", "N", "D", "A", "T", "A", "S", "O", "U", "R", "C", "E">>, <<"O", "P", "E", "N", "Q", "U", "E", "R", "Y">>, <<"-", "-">>, <<"/", "*">>, <<"*", "/">>,
       <<"U", "N", "I", "O", "N">>, <<"H", "A", "V", "I", "N", "G">> >>

\* INJECTION_PATTERNS[0]: a single quote | a double quote | grave accent then ; |
\* -- | /\* | \*/ | union | select.*from | insert.*into | delete.*from |
\* update.*set | drop.*table
InjectionPattern1(s) ==
    \/ SearchI(s, <<"'">>)
    \/ SearchI(s, <<"\"">>)
    \/ SearchI(s, <<Backtick, ";">>)
    \/ SearchI(s, <<"-", "-">>)
    \/ SearchI(s, <<"/", "*">>)
    \/ SearchI(s, <<"*", "/">>)
    \/ SearchI(s, <<"u", "n", "i", "o", "n">>)
    \/ SearchDotStarI(s, <<"s", "e", "l", "e", "c", "t">>, <<"f", "r", "o", "m">>)
    \/ SearchDotStarI(s, <<"i", "n", "s", "e", "r", "t">>, <<"i", "n", "t", "o">>)
    \/ SearchDotStarI(s, <<"d", "e", "l", "e", "t", "e">>, <<"f", "r", "o", "m">>)
    \/ SearchDotStarI(s, <<"u", "p", "d", "a", "t", "e">>, <<"s", "e", "t">>)
    \/ SearchDotStarI(s, <<"d", "r", "o", "p">>, <<"t", "a", "b", "l", "e">>)

\* INJECTION_PATTERNS[1]: (exec|execute|sp_|xp_)
InjectionPattern2(s) ==
    \/ SearchI(s, <<"e", "x", "e", "c">>)
    \/ SearchI(s, <<"e", "x", "e", "c", "u", "t", "e">>)
    \/ SearchI(s, <<"s", "p", "_">>)
    \/ SearchI(s, <<"x", "p", "_">>)

\* INJECTION_PATTERNS[2]: (script|javascript|vbscript)
InjectionPattern3(s) ==
    \/ SearchI(s, <<"s", "c", "r", "i", "p", "t">>)
    \/ SearchI(s, <<"j", "a", "v", "a", "s", "c", "r", "i", "p", "t">>)
    \/ SearchI(s, <<"v", "b", "s", "c", "r", "i", "p", "t">>)

\* INJECTION_PATTERNS[3]: (\bor\b.*=.*\bor\b|\band\b.*=.*\band\b)
InjectionPattern4(s) ==
    \/ SearchTautologyI(s, <<"o", "r">>)
    \/ SearchTautologyI(s, <<"a", "n", "d">>)

\* INJECTION_PATTERNS[4]: (1=1|1\s*=\s*1|true|false)
InjectionPattern5(s) ==
    \/ SearchI(s, <<"1", "=", "1">>)
    \/ SearchOneEqOne(s)
    \/ SearchI(s, <<"t", "r", "u", "e">>)
    \/ SearchI(s, <<"f", "a", "l", "s", "e">>)

\* re.search(INJECTION_PATTERNS[p - 1], s, re.IGNORECASE)
INJECTION_PATTERNS(p, s) ==
    CASE p = 1 -> InjectionPattern1(s)
      [] p = 2 -> InjectionPattern2(s)
      [] p = 3 -> InjectionPattern3(s)
      [] p = 4 -> InjectionPattern4(s)
      [] p = 5 -> InjectionPattern5(s)

NumInjectionPatterns == 5

valid_tables ==
    { <<"C", "o", "m", "p", "a", "n", "y">>, <<"L", "e", "d", "g", "e", "r">>, <<"V", "o", "u", "c", "h", "e", "r">>, <<"V", "o", "u", "c", "h", "e", "r", "I", "t", "e", "m">>, <<"S", "t", "o", "c", "k", "I", "t", "e", "m">>,
      <<"S", "t", "o", "c", "k", "G", "r", "o", "u", "p">>, <<"G", "r", "o", "u", "p">>, <<"C", "u", "r", "r", "e", "n", "c", "y">>, <<"G", "o", "D", "o", "w", "n">>, <<"U", "n", "i", "t">> }

(***************************************************************************)
(* Python values passed as query: a str, or a value of another type.       *)
(* val is the text of a str and str(value) of anything else.               *)
(***************************************************************************)

PyStr(s) == [type |-> "str", val |-> s]

PyOther(t, r) == [type |-> t, val |-> r]

\* bool(value)
truthy(value) ==
    CASE value.type = "str"      -> Len(value.val) > 0
      [] value.type = "NoneType" -> FALSE
      [] value.type = "int"      -> value.val # <<"0">>
      [] value.type = "list"     -> value.val # <<"[", "]">>
      [] value.type = "dict"     -> value.val # <<"{", "}">>
      [] OTHER                   -> Len(value.val) > 0

\* isinstance(value, str)
isinstance_str(value) == value.type = "str"

LogRecord(level, msg, detail) == [level |-> level, msg |-> msg, detail |-> detail]

(***************************************************************************)
(* security.py: _validate_tally_query_structure                            *)
(***************************************************************************)

\* first position from i on that does not hold whitespace (Len(s) + 1 if none)
SkipSpace(s, i) ==
    IF \A k \in i..Len(s) : IsSpace(s[k])
    THEN Len(s) + 1
    ELSE CHOOSE j \in i..Len(s) :
            /\ ~IsSpace(s[j])
            /\ \A k \in i..(j - 1) : IsSpace(s[k])

\* end of the run of word characters that starts at i
WordEnd(s, i) ==
    CHOOSE j \in i..Len(s) :
        /\ \A k \in i..j : IsWord(s[k])
        /\ (j = Len(s) \/ ~IsWord(s[j + 1]))

\* r'FROM\s+(\w+)' with re.IGNORECASE matches at position i
FromMatchAt(s, i) ==
    /\ AtI(s, <<"F", "R", "O", "M">>, i)
    /\ i + 4 <= Len(s)
    /\ IsSpace(s[i + 4])
    /\ SkipSpace(s, i + 4) <= Len(s)
    /\ IsWord(s[SkipSpace(s, i + 4)])

\* re.search(r'FROM\s+(\w+)', query, re.IGNORECASE): position of the
\* leftmost match, 0 for None
from_match(query) ==
    LET hits == {i \in 1..Len(query) : FromMatchAt(query, i)}
    IN  IF hits = {} THEN 0
        ELSE CHOOSE i \in hits : \A j \in hits : i <= j

\* from_match.group(1)
table_name(query) ==
    LET w == SkipSpace(query, from_match(query) + 4)
    IN  SubSeq(query, w, WordEnd(query, w))

\* a comparison that ignores case
table_allowed_ignoring_case(name) == upper(name) \in {upper(t) : t \in valid_tables}

\* table_name in valid_tables
table_allowed(name) == name \in valid_tables

\* a pattern that asks for the sigil only
tally_fields_sigil_only(query) == \E i \in 1..Len(query) : query[i] = "$"

\* re.findall(r'\$\w+', query) is not empty
tally_fields(query) ==
    \E i \in 1..(Len(query) - 1) : query[i] = "$" /\ IsWord(query[i + 1])

_validate_tally_query_structure(query) ==
    IF from_match(query) # 0 /\ ~table_allowed(table_name(query))
    THEN [ret |-> FALSE,
          log |-> << LogRecord("WARNING", "Invalid table name for Tally ODBC",
                               table_name(query)) >>]
    ELSE IF ~tally_fields(query)
    THEN [ret |-> FALSE,
          log |-> << LogRecord("WARNING",
                               "No Tally fields ($FieldName) found in query",
                               << >>) >>]
    ELSE [ret |-> TRUE, log |-> << >>]

(***************************************************************************)
(* security.py: validate_sql_query                                         *)
(***************************************************************************)

\* a check that skips isinstance and goes on with str(query)
malformed_coercing(query) == ~truthy(query)

\* not query or not isinstance(query, str)
malformed(query) == ~truthy(query) \/ ~isinstance_str(query)

\* query.upper().strip()
query_upper(query) == strip(upper(query))

\* a scan of the query as written, not upper-cased
dangerous_keyword_as_written(query) ==
    LET qu   == strip(query)
        hits == {k \in 1..Len(DANGEROUS_KEYWORDS) : Contains(qu, DANGEROUS_KEYWORDS[k])}
    IN  IF hits = {} THEN 0
        ELSE CHOOSE k \in hits : \A j \in hits : k <= j

\* the keyword at which the loop over DANGEROUS_KEYWORDS returns
\* (index into DANGEROUS_KEYWORDS, 0 when the loop runs to its end)
dangerous_keyword(query) ==
    LET qu   == query_upper(query)
        hits == {k \in 1..Len(DANGEROUS_KEYWORDS) : Contains(qu, DANGEROUS_KEYWORDS[k])}
    IN  IF hits = {} THEN 0
        ELSE CHOOSE k \in hits : \A j \in hits : k <= j

\* a loop that stops one pattern short
injection_pattern_short(query) ==
    LET hits == {p \in 1..(NumInjectionPatterns - 1) : INJECTION_PATTERNS(p, query)}
    IN  IF hits = {} THEN 0
        ELSE CHOOSE p \in hits : \A j \in hits : p <= j

\* the pattern at which the loop over INJECTION_PATTERNS returns
\* (1-based index, 0 when the loop runs to its end)
injection_pattern(query) ==
    LET hits == {p \in 1..NumInjectionPatterns : INJECTION_PATTERNS(p, query)}
    IN  IF hits = {} THEN 0
        ELSE CHOOSE p \in hits : \A j \in hits : p <= j

PatternName(p) ==
    << "INJECTION_PATTERNS[0]", "INJECTION_PATTERNS[1]", "INJECTION_PATTERNS[2]",
       "INJECTION_PATTERNS[3]", "INJECTION_PATTERNS[4]" >>[p]

\* a test for SELECT anywhere in the query
is_select_anywhere(query) == Contains(query_upper(query), <<"S", "E", "L", "E", "C", "T">>)

\* query_upper.startswith('SELECT')
is_select(query) == startswith(query_upper(query), <<"S", "E", "L", "E", "C", "T">>)

\* the read-only test made before the keyword and pattern scans
validate_sql_query_call_reordered(query) ==
    IF malformed(query)
    THEN [ret |-> FALSE,
          log |-> << LogRecord("WARNING", "Empty or invalid query provided", << >>) >>]
    ELSE IF ~is_select(query.val)
    THEN [ret |-> FALSE,
          log |-> << LogRecord("WARNING", "Only SELECT queries are allowed", << >>) >>]
    ELSE IF dangerous_keyword(query.val) # 0
    THEN [ret |-> FALSE,
          log |-> << LogRecord("WARNING", "Dangerous keyword found in query",
                               DANGEROUS_KEYWORDS[dangerous_keyword(query.val)]) >>]
    ELSE IF injection_pattern(query.val) # 0
    THEN [ret |-> FALSE,
          log |-> << LogRecord("WARNING", "Potential SQL injection pattern found",
                               << PatternName(injection_pattern(query.val)) >>) >>]
    ELSE IF ~_validate_tally_query_structure(query.val).ret
    THEN [ret |-> FALSE,
          log |-> _validate_tally_query_structure(query.val).log]
    ELSE [ret |-> TRUE,
          log |-> << LogRecord("DEBUG", "Query validation passed", << >>) >>]

\* one call of validate_sql_query: the value returned and the records logged
validate_sql_query_call(query) ==
    IF malformed(query)
    THEN [ret |-> FALSE,
          log |-> << LogRecord("WARNING", "Empty or invalid query provided", << >>) >>]
    ELSE IF dangerous_keyword(query.val) # 0
    THEN [ret |-> FALSE,
          log |-> << LogRecord("WARNING", "Dangerous keyword found in query",
                               DANGEROUS_KEYWORDS[dangerous_keyword(query.val)]) >>]
    ELSE IF injection_pattern(query.val) # 0
    THEN [ret |-> FALSE,
          log |-> << LogRecord("WARNING", "Potential SQL injection pattern found",
                               << PatternName(injection_pattern(query.val)) >>) >>]
    ELSE IF ~is_select(query.val)
    THEN [ret |-> FALSE,
          log |-> << LogRecord("WARNING", "Only SELECT queries are allowed", << >>) >>]
    ELSE IF ~_validate_tally_query_structure(query.val).ret
    THEN [ret |-> FALSE,
          log |-> _validate_tally_query_structure(query.val).log]
    ELSE [ret |-> TRUE,
          log |-> << LogRecord("DEBUG", "Query validation passed", << >>) >>]

\* the value validate_sql_query(query) returns
validate_sql_query(query) == validate_sql_query_call(query).ret

(***************************************************************************)
(* Arguments of the calls                                                  *)
(***************************************************************************)

LowerMap ==
    [c \in {UpperLetters[i] : i \in 1..26} |->
        LowerLetters[CHOOSE i \in 1..26 : UpperLetters[i] = c]]

LowerChar(c) == IF c \in DOMAIN LowerMap THEN LowerMap[c] ELSE c

\* str.lower()
lower(s) == [i \in 1..Len(s) |-> LowerChar(s[i])]

\* str.capitalize()
capitalize(s) == [i \in 1..Len(s) |-> IF i = 1 THEN UpperChar(s[i]) ELSE LowerChar(s[i])]

\* the queries of tests/test_security.py and of the scenarios of the specification
TestQueries ==
    { <<"S", "E", "L", "E", "C", "T", " ", "$", "N", "a", "m", "e", " ", "F", "R", "O", "M", " ", "L", "e", "d", "g", "e", "r">>,
      <<"S", "E", "L", "E", "C", "T", " ", "$", "N", "a", "m", "e", ",", " ", "$", "C", "l", "o", "s", "i", "n", "g", "B", "a", "l", "a", "n", "c", "e", " ", "F", "R", "O", "M", " ", "L", "e", "d", "g", "e", "r", " ", "W", "H", "E", "R", "E", " ", "$", "P", "a", "r", "e", "n", "t", " ", "=", " ", "'", "A", "s", "s", "e", "t", "s", "'">>,
      <<"S", "E", "L", "E", "C", "T", " ", "C", "O", "U", "N", "T", "(", "*", ")", " ", "F", "R", "O", "M", " ", "V", "o", "u", "c", "h", "e", "r">>,
      <<"S", "E", "L", "E", "C", "T", " ", "$", "D", "a", "t", "e", ",", " ", "$", "A", "m", "o", "u", "n", "t", " ", "F", "R", "O", "M", " ", "V", "o", "u", "c", "h", "e", "r", " ", "O", "R", "D", "E", "R", " ", "B", "Y", " ", "$", "D", "a", "t", "e", " ", "D", "E", "S", "C">>,
      <<"D", "R", "O", "P", " ", "T", "A", "B", "L", "E", " ", "L", "e", "d", "g", "e", "r">>,
      <<"D", "E", "L", "E", "T", "E", " ", "F", "R", "O", "M", " ", "V", "o", "u", "c", "h", "e", "r">>,
      <<"I", "N", "S", "E", "R", "T", " ", "I", "N", "T", "O", " ", "L", "e", "d", "g", "e", "r", " ", "V", "A", "L", "U", "E", "S", " ", "(", "'", "T", "e", "s", "t", "'", ")">>,
      <<"U", "P", "D", "A", "T", "E", " ", "V", "o", "u", "c", "h", "e", "r", " ", "S", "E", "T", " ", "$", "A", "m", "o", "u", "n", "t", " ", "=", " ", "0">>,
      <<"E", "X", "E", "C", " ", "s", "p", "_", "h", "e", "l", "p", "d", "b">>,
      <<"S", "E", "L", "E", "C", "T", " ", "*", " ", "F", "R", "O", "M", " ", "L", "e", "d", "g", "e", "r", ";", " ", "D", "R", "O", "P", " ", "T", "A", "B", "L", "E", " ", "V", "o", "u", "c", "h", "e", "r", ";">>,
      <<"S", "E", "L", "E", "C", "T", " ", "*", " ", "F", "R", "O", "M", " ", "L", "e", "d", "g", "e", "r", " ", "W", "H", "E", "R", "E", " ", "1", "=", "1", " ", "O", "R", " ", "1", "=", "1">>,
      <<"S", "E", "L", "E", "C", "T", " ", "*", " ", "F", "R", "O", "M", " ", "L", "e", "d", "g", "e", "r", " ", "U", "N", "I", "O", "N", " ", "S", "E", "L", "E", "C", "T", " ", "*", " ", "F", "R", "O", "M", " ", "V", "o", "u", "c", "h", "e", "r">>,
      <<"S", "E", "L", "E", "C", "T", " ", "*", " ", "F", "R", "O", "M", " ", "L", "e", "d", "g", "e", "r", " ", "W", "H", "E", "R", "E", " ", "$", "N", "a", "m", "e", " ", "=", " ", "'", "T", "e", "s", "t", "'", ";", " ", "D", "R", "O", "P", " ", "T", "A", "B", "L", "E", " ", "V", "o", "u", "c", "h", "e", "r", ";", " ", "-", "-", "'">>,
      <<"S", "E", "L", "E", "C", "T", " ", "*", " ", "F", "R", "O", "M", " ", "L", "e", "d", "g", "e", "r", " ", "W", "H", "E", "R", "E", " ", "$", "N", "a", "m", "e", " ", "=", " ", "'", "T", "e", "s", "t", "'", " ", "O", "R", " ", "1", "=", "1">>,
      <<"S", "E", "L", "E", "C", "T", " ", "*", " ", "F", "R", "O", "M", " ", "L", "e", "d", "g", "e", "r", " ", "W", "H", "E", "R", "E", " ", "$", "N", "a", "m", "e", " ", "=", " ", "'", "T", "e", "s", "t", "'", " ", "U", "N", "I", "O", "N", " ", "S", "E", "L", "E", "C", "T", " ", "p", "a", "s", "s", "w", "o", "r", "d", " ", "F", "R", "O", "M", " ", "u", "s", "e", "r", "s">>,
      <<"S", "E", "L", "E", "C", "T", " ", "*", " ", "F", "R", "O", "M", " ", "L", "e", "d", "g", "e", "r", " ", "/", "*", " ", "c", "o", "m", "m", "e", "n", "t", " ", "*", "/", " ", "W", "H", "E", "R", "E", " ", "$", "N", "a", "m", "e", " ", "=", " ", "'", "T", "e", "s", "t", "'">>,
      <<"C", "R", "E", "A", "T", "E", " ", "T", "A", "B", "L", "E", " ", "t", "e", "s", "t", " ", "(", "i", "d", " ", "i", "n", "t", ")">>,
      <<"A", "L", "T", "E", "R", " ", "T", "A", "B", "L", "E", " ", "L", "e", "d", "g", "e", "r", " ", "A", "D", "D", " ", "C", "O", "L", "U", "M", "N", " ", "t", "e", "s", "t", " ", "v", "a", "r", "c", "h", "a", "r", "(", "5", "0", ")">>,
      <<"G", "R", "A", "N", "T", " ", "S", "E", "L", "E", "C", "T", " ", "O", "N", " ", "L", "e", "d", "g", "e", "r", " ", "T", "O", " ", "u", "s", "e", "r">>,
      <<"T", "R", "U", "N", "C", "A", "T", "E", " ", "T", "A", "B", "L", "E", " ", "V", "o", "u", "c", "h", "e", "r">>,
      <<"S", "E", "L", "E", "C", "T", " ", "$", "N", "a", "m", "e", ",", " ", "$", "C", "l", "o", "s", "i", "n", "g", "B", "a", "l", "a", "n", "c", "e", " ", "F", "R", "O", "M", " ", "L", "e", "d", "g", "e", "r">>,
      <<"S", "E", "L", "E", "C", "T", " ", "N", "a", "m", "e", ",", " ", "C", "l", "o", "s", "i", "n", "g", "B", "a", "l", "a", "n", "c", "e", " ", "F", "R", "O", "M", " ", "L", "e", "d", "g", "e", "r">>,
      <<"S", "E", "L", "E", "C", "T", " ", "*", " ", "F", "R", "O", "M", " ", "L", "e", "d", "g", "e", "r", ";", " ", "D", "R", "O", "P", " ", "T", "A", "B", "L", "E", " ", "V", "o", "u", "c", "h", "e", "r", ";", " ", "-", "-", "'">>,
      <<"S", "E", "L", "E", "C", "T", " ", "$", "N", "a", "m", "e", ",", " ", "E", "X", "E", "C", "(", "'", "x", "'", ")", " ", "F", "R", "O", "M", " ", "L", "e", "d", "g", "e", "r">>,
      <<>>,
      <<" ", " ", " ">>,
      <<" ", "\t", "\n">> }

\* fragments of query text
Frags ==
    << <<"S", "E", "L", "E", "C", "T", " ", "$", "N", "a", "m", "e">>, <<"s", "e", "l", "e", "c", "t", " ", "x">>, <<"\n", "F", "R", "O", "M", " ">>, <<" ", "f", "r", "o", "m", " ">>, <<"L", "e", "d", "g", "e", "r">>,
       <<"l", "e", "d", "g", "e", "r">>, <<" ", "D", "R", "O", "P">>, <<"'">>, <<" ", "o", "r", " ", "1", "=", "1">>, <<" ">>, <<"$">>, <<"t", "r", "u", "e">> >>

MaxFrags == 3

RECURSIVE Concat(_)
Concat(fs) == IF fs = << >> THEN << >> ELSE Frags[Head(fs)] \o Concat(Tail(fs))

\* every concatenation of at most MaxFrags fragments
FragQueries ==
    UNION {{Concat(fs) : fs \in [1..n -> 1..Len(Frags)]} : n \in 1..MaxFrags}

\* each deny-listed keyword, in three spellings, alone and inside valid syntax
KeywordQueries ==
    { pre \o kw \o post :
        kw \in UNION {{DANGEROUS_KEYWORDS[k], lower(DANGEROUS_KEYWORDS[k]),
                       capitalize(DANGEROUS_KEYWORDS[k])} :
                      k \in 1..Len(DANGEROUS_KEYWORDS)},
        pre \in {<<>>, <<"S", "E", "L", "E", "C", "T", " ", "$", "N", "a", "m", "e", " ">>},
        post \in {<<>>, <<"\n", "F", "R", "O", "M", " ", "L", "e", "d", "g", "e", "r">>} }

\* a FROM clause on a line of its own, over listed and unlisted tables
TableQueries ==
    { pre \o t \o post :
        t \in valid_tables \cup {lower(n) : n \in valid_tables}
                           \cup {upper(n) : n \in valid_tables}
                           \cup {<<"U", "s", "e", "r", "s">>, <<"L", "e", "d", "g", "e", "r", "2">>, <<"_", "U", "n", "i", "t">>},
        pre \in {<<"S", "E", "L", "E", "C", "T", " ", "$", "N", "a", "m", "e", "\n", "F", "R", "O", "M", " ">>, <<"S", "E", "L", "E", "C", "T", " ", "N", "a", "m", "e", "\n", "f", "r", "o", "m", "\t", " ">>},
        post \in {<<>>, <<" ", "O", "R", "D", "E", "R", " ", "B", "Y", " ", "$", "N", "a", "m", "e">>} }

\* text that the injection patterns look for, and text that comes close
PatternQueries ==
    { <<"S", "E", "L", "E", "C", "T", " ", "$", "N", "a", "m", "e", " ">> \o x :
        x \in { <<"'">>, <<"\"">>, <<Backtick, ";">>, <<Backtick>>, <<";">>, <<"-">>, <<"/">>, <<"*">>,
                <<"U", "n", "i", "o", "n">>, <<"i", "n", "s", "e", "r", "t", " ", "$", "a", " ", "i", "n", "t", "o">>, <<"i", "n", "s", "e", "r", "t", "\n", "i", "n", "t", "o">>,
                <<"u", "p", "d", "a", "t", "e", " ", "$", "a", " ", "s", "e", "t">>, <<"u", "p", "d", "a", "t", "e", "\n", "s", "e", "t">>,
                <<"S", "c", "r", "i", "p", "t">>, <<"j", "a", "v", "a", "s", "c", "r", "i", "p", "t">>, <<"v", "b", "s", "c", "r", "i", "p", "t">>,
                <<"o", "r", " ", "$", "a", " ", "=", " ", "$", "b", " ", "o", "r", " ", "$", "c">>, <<"o", "r", " ", "$", "a", " ", "=", " ", "$", "b">>, <<"o", "r", " ", "$", "a", "\n", "=", " ", "$", "b", " ", "o", "r", " ", "$", "c">>,
                <<"o", "r", "d", "e", "r", " ", "=", " ", "b", "o", "r", "d", "e", "r", " ", "o", "r">>, <<"A", "N", "D", " ", "$", "a", "=", "$", "b", " ", "A", "N", "D", " ", "$", "c">>, <<"a", "n", "d", " ", "$", "a", " ", "a", "n", "d", " ", "$", "b">>,
                <<"1", "=", "1">>, <<"1", " ", "\t", "=", "\n", " ", "1">>, <<"1", " ", "=", " ", "2">>, <<"1", "1">>, <<"T", "r", "u", "e">>, <<"F", "A", "L", "S", "E">>,
                <<"t", "r", "u">> } }

\* values that are not str
NonStrings ==
    { PyOther("NoneType", <<"N", "o", "n", "e">>),
      PyOther("int", <<"1", "2", "3">>),
      PyOther("int", <<"0">>),
      PyOther("list", <<"[", "]">>),
      PyOther("list", <<"[", "1", "]">>),
      PyOther("dict", <<"{", "}">>),
      PyOther("UserString", <<"S", "E", "L", "E", "C", "T", " ", "$", "N", "a", "m", "e">>) }

\* the queries handed to execute_query
ExecQueries ==
    { <<"S", "E", "L", "E", "C", "T", " ", "$", "N", "a", "m", "e">>,
      <<"S", "E", "L", "E", "C", "T", " ", "$", "N", "a", "m", "e", "\n", "F", "R", "O", "M", " ", "L", "e", "d", "g", "e", "r">>,
      <<"S", "E", "L", "E", "C", "T", " ", "$", "N", "a", "m", "e", "\n", "F", "R", "O", "M", " ", "U", "s", "e", "r", "s">>,
      <<"S", "E", "L", "E", "C", "T", " ", "$", "N", "a", "m", "e", " ", "F", "R", "O", "M", " ", "L", "e", "d", "g", "e", "r">>,
      <<"S", "E", "L", "E", "C", "T", " ", "$", "N", "a", "m", "e", " ", "a", "s", " ", "c", "o", "m", "p", "a", "n", "y", "_", "n", "a", "m", "e", " ", "F", "R", "O", "M", " ", "C", "o", "m", "p", "a", "n", "y">>,
      <<"D", "R", "O", "P", " ", "T", "A", "B", "L", "E", " ", "L", "e", "d", "g", "e", "r">>,
      <<"S", "E", "L", "E", "C", "T", " ", "*", " ", "F", "R", "O", "M", " ", "L", "e", "d", "g", "e", "r", ";", " ", "D", "R", "O", "P", " ", "T", "A", "B", "L", "E", " ", "V", "o", "u", "c", "h", "e", "r", ";", " ", "-", "-", "'">>,
      <<>> }

MaxRetryAttempts == 3

MaxRows == 2

\* queries that read a second table
SecondTableQueries ==
    { <<"S", "E", "L", "E", "C", "T", " ", "$", "N", "a", "m", "e", "\n", "F", "R", "O", "M", " ", "L", "e", "d", "g", "e", "r", "\n", "F", "R", "O", "M", " ", "U", "s", "e", "r", "s">>,
      <<"S", "E", "L", "E", "C", "T", " ", "$", "N", "a", "m", "e", "\n", "F", "R", "O", "M", " ", "L", "e", "d", "g", "e", "r", "\n", "W", "H", "E", "R", "E", " ", "$", "P", "a", "r", "e", "n", "t", " ", "I", "N", " ", "(", "S", "E", "L", "E", "C", "T", " ", "$", "N", "a", "m", "e", "\n", "F", "R", "O", "M", " ", "s", "y", "s", "o", "b", "j", "e", "c", "t", "s", ")">>,
      <<"S", "E", "L", "E", "C", "T", " ", "$", "N", "a", "m", "e", "\n", "F", "R", "O", "M", " ", "L", "e", "d", "g", "e", "r", ",", " ", "(", "S", "E", "L", "E", "C", "T", " ", "$", "P", "a", "r", "e", "n", "t", "\n", "F", "R", "O", "M", " ", "V", "o", "u", "c", "h", "e", "r", ")">> }

QueryArgs ==
    NonStrings \cup
    {PyStr(s) : s \in TestQueries \cup FragQueries \cup KeywordQueries
                       \cup TableQueries \cup PatternQueries
                       \cup SecondTableQueries}

(***************************************************************************)
(* State                                                                   *)
(***************************************************************************)

VARIABLES
    query,           \* the argument of the call
    pc,              \* where the call stands
    ret,             \* the value validate_sql_query returned
    log,             \* the records logged by security.py during the call
    params,          \* execute_query: the params argument (<< >> for None)
    fetch_all,       \* execute_query: the fetch_all argument
    retry_attempts,  \* TallyDatabase.retry_attempts
    db_rows,         \* the number of rows the data source holds for the query
    attempt,         \* execute_query: attempt
    results,         \* execute_query: results (each row by its position)
    conn,            \* the connection of the current attempt
    opened,          \* connections opened so far
    sent,            \* the calls of cursor.execute so far
    exc,             \* the exception execute_query raised
    input_value,     \* sanitize_input: the input_value argument
    max_length,      \* sanitize_input: the max_length argument
    sanitized,       \* sanitize_input: the string returned
    date_str,        \* validate_date_input: the argument
    amount_str,      \* validate_amount_input: the argument
    valid,           \* the value validate_date_input / validate_amount_input returned
    strict_mode,     \* SecurityValidator.strict_mode
    verdict,         \* the pair SecurityValidator.validate_query returned
    response,        \* the TallyDataResponse execute_custom_query returned
    raw_params,      \* create_safe_query_params: the params argument
    safe_params      \* create_safe_query_params: the dictionary returned

vars == << query, pc, ret, log, params, fetch_all, retry_attempts, db_rows,
           attempt, results, conn, opened, sent, exc, input_value, max_length,
           sanitized, date_str, amount_str, valid, strict_mode, verdict,
           response, raw_params, safe_params >>

sanitizeVars == << input_value, max_length, sanitized >>

formatVars == << date_str, amount_str, valid >>

strictVars == << strict_mode, verdict >>

serviceVars == << response >>

paramVars == << raw_params, safe_params >>

helperVars == << sanitizeVars, formatVars, strictVars, serviceVars, paramVars >>

\* no call of sanitize_input is under way
SanitizeIdle ==
    /\ input_value = [type |-> "str", val |-> << >>]
    /\ max_length = 0
    /\ sanitized = << >>

\* no call of validate_date_input or validate_amount_input is under way
FormatIdle ==
    /\ date_str = << >>
    /\ amount_str = << >>
    /\ valid = FALSE

\* no call of SecurityValidator.validate_query is under way
StrictIdle ==
    /\ strict_mode = TRUE
    /\ verdict = [is_valid |-> FALSE, error |-> "None"]

\* no call of execute_custom_query has returned
\* (count is -1 for None)
ServiceIdle == response = [success |-> FALSE, message |-> "", count |-> -1]

\* no call of create_safe_query_params is under way
ParamsIdle ==
    /\ raw_params = << >>
    /\ safe_params = << >>

execVars == << params, fetch_all, retry_attempts, db_rows, attempt, results,
               conn, opened, sent, exc >>

NoException == [type |-> "none", msg |-> ""]

(***************************************************************************)
(* Calls of validate_sql_query                                             *)
(***************************************************************************)

Init ==
    /\ query \in QueryArgs
    /\ pc = "call"
    /\ ret = FALSE
    /\ log = << >>
    /\ params = << >>
    /\ fetch_all = TRUE
    /\ retry_attempts = MaxRetryAttempts
    /\ db_rows = 0
    /\ attempt = 0
    /\ results = << >>
    /\ conn = "none"
    /\ opened = 0
    /\ sent = << >>
    /\ exc = NoException
    /\ SanitizeIdle
    /\ FormatIdle
    /\ StrictIdle
    /\ ServiceIdle
    /\ ParamsIdle

\* validate_sql_query(query)
Validate ==
    /\ pc = "call"
    /\ UNCHANGED helperVars
    /\ pc' = "returned"
    /\ ret' = validate_sql_query_call(query).ret
    /\ log' = validate_sql_query_call(query).log
    /\ UNCHANGED << query, execVars >>

Next == Validate

Spec == Init /\ [][Next]_vars

(***************************************************************************)
(* connection.py: TallyDatabase.execute_query                              *)
(***************************************************************************)

InitExec ==
    /\ query \in {PyStr(s) : s \in ExecQueries}
    /\ params \in {<< >>, << "Sales" >>}
    /\ fetch_all \in BOOLEAN
    /\ retry_attempts \in 0..MaxRetryAttempts
    /\ db_rows \in 0..MaxRows
    /\ pc = "eq_call"
    /\ ret = FALSE
    /\ log = << >>
    /\ attempt = 0
    /\ results = << >>
    /\ conn = "none"
    /\ opened = 0
    /\ sent = << >>
    /\ exc = NoException
    /\ SanitizeIdle
    /\ FormatIdle
    /\ StrictIdle
    /\ ServiceIdle
    /\ ParamsIdle

\* a gate that logs the verdict and goes on whatever it is
ExecuteQueryValidateUnchecked ==
    /\ pc = "eq_call"
    /\ UNCHANGED helperVars
    /\ ret' = validate_sql_query_call(query).ret
    /\ log' = validate_sql_query_call(query).log
    /\ pc' = "eq_loop"
    /\ results' = << >>
    /\ attempt' = 0
    /\ UNCHANGED << query, params, fetch_all, retry_attempts, db_rows, conn,
                    opened, sent, exc >>

\* lines 70-75: the gate, then results = [] and attempt = 0
ExecuteQueryValidate ==
    /\ pc = "eq_call"
    /\ UNCHANGED helperVars
    /\ ret' = validate_sql_query_call(query).ret
    /\ log' = validate_sql_query_call(query).log
    /\ IF ~validate_sql_query_call(query).ret
       THEN /\ pc' = "eq_raised"
            /\ exc' = [type |-> "ValueError",
                       msg  |-> "Query validation failed - potential SQL injection detected"]
            /\ UNCHANGED << results, attempt >>
       ELSE /\ pc' = "eq_loop"
            /\ results' = << >>
            /\ attempt' = 0
            /\ UNCHANGED exc
    /\ UNCHANGED << query, params, fetch_all, retry_attempts, db_rows, conn,
                    opened, sent >>

\* line 77: while attempt < self.retry_attempts; line 113: return results
ExecuteQueryLoop ==
    /\ pc = "eq_loop"
    /\ UNCHANGED helperVars
    /\ pc' = IF attempt < retry_attempts THEN "eq_connect" ELSE "eq_returned"
    /\ UNCHANGED << query, ret, log, execVars >>

\* line 79: with self.get_connection() as conn.  pyodbc.connect either
\* succeeds, or fails with pyodbc.Error, which _create_connection turns into
\* ConnectionError; ConnectionError is not a pyodbc.Error, so the handler of
\* line 105 lets it through.
ExecuteQueryConnect ==
    /\ pc = "eq_connect"
    /\ UNCHANGED helperVars
    /\ \E ok \in BOOLEAN :
         IF ok
         THEN /\ conn' = "open"
              /\ opened' = opened + 1
              /\ pc' = "eq_execute"
              /\ UNCHANGED exc
         ELSE /\ pc' = "eq_raised"
              /\ exc' = [type |-> "ConnectionError", msg |-> "Could not connect to Tally"]
              /\ UNCHANGED << conn, opened >>
    /\ UNCHANGED << query, ret, log, params, fetch_all, retry_attempts, db_rows,
                    attempt, results, sent >>

\* a failed cursor.execute that leaves the connection as it is
ExecuteQueryCursorExecuteLeaking ==
    /\ pc = "eq_execute"
    /\ UNCHANGED helperVars
    /\ sent' = Append(sent, [query |-> query.val, params |-> params])
    /\ \E ok \in BOOLEAN : pc' = IF ok THEN "eq_fetch" ELSE "eq_except"
    /\ UNCHANGED << query, ret, log, params, fetch_all, retry_attempts, db_rows,
                    attempt, results, conn, opened, exc >>

\* lines 80-86: cursor.execute(query, params) or cursor.execute(query).  On
\* pyodbc.Error get_connection closes the connection and the handler runs.
ExecuteQueryCursorExecute ==
    /\ pc = "eq_execute"
    /\ UNCHANGED helperVars
    /\ sent' = Append(sent, [query |-> query.val, params |-> params])
    /\ \E ok \in BOOLEAN :
         IF ok
         THEN /\ pc' = "eq_fetch"
              /\ UNCHANGED conn
         ELSE /\ pc' = "eq_except"
              /\ conn' = "closed"
    /\ UNCHANGED << query, ret, log, params, fetch_all, retry_attempts, db_rows,
                    attempt, results, opened, exc >>

\* line 93: cursor.fetchall()
fetchall(n) == [i \in 1..n |-> i]

\* line 95: [cursor.fetchone()] if cursor.fetchone() else [].  The test
\* consumes the first row; the row kept is the one fetched next, None (0) when
\* there is none.
fetchone_rows(n) == IF n >= 1 THEN << IF n >= 2 THEN 2 ELSE 0 >> ELSE << >>

\* lines 98-100: for row in rows: if row: results.append(...)
append_rows(res, rows) == res \o SelectSeq(rows, LAMBDA r : r # 0)

\* lines 88-103: fetch, convert and return; leaving the with block closes the
\* connection.  A fetch that fails with pyodbc.Error goes to the handler.
ExecuteQueryFetch ==
    /\ pc = "eq_fetch"
    /\ UNCHANGED helperVars
    /\ conn' = "closed"
    /\ \E ok \in BOOLEAN :
         IF ok
         THEN /\ results' = append_rows(results,
                               IF fetch_all THEN fetchall(db_rows)
                                            ELSE fetchone_rows(db_rows))
              /\ pc' = "eq_returned"
         ELSE /\ pc' = "eq_except"
              /\ UNCHANGED results
    /\ UNCHANGED << query, ret, log, params, fetch_all, retry_attempts, db_rows,
                    attempt, opened, sent, exc >>

\* a handler that gives up one failure late
ExecuteQueryExceptOffByOne ==
    /\ pc = "eq_except"
    /\ UNCHANGED helperVars
    /\ attempt' = attempt + 1
    /\ IF attempt + 1 > retry_attempts
       THEN /\ pc' = "eq_raised"
            /\ exc' = [type |-> "ConnectionError", msg |-> "Query failed after attempts"]
       ELSE /\ pc' = "eq_loop"
            /\ UNCHANGED exc
    /\ UNCHANGED << query, ret, log, params, fetch_all, retry_attempts, db_rows,
                    results, conn, opened, sent >>

\* lines 105-111: except pyodbc.Error
ExecuteQueryExcept ==
    /\ pc = "eq_except"
    /\ UNCHANGED helperVars
    /\ attempt' = attempt + 1
    /\ IF attempt + 1 >= retry_attempts
       THEN /\ pc' = "eq_raised"
            /\ exc' = [type |-> "ConnectionError", msg |-> "Query failed after attempts"]
       ELSE /\ pc' = "eq_loop"
            /\ UNCHANGED exc
    /\ UNCHANGED << query, ret, log, params, fetch_all, retry_attempts, db_rows,
                    results, conn, opened, sent >>

NextExec ==
    \/ ExecuteQueryValidate
    \/ ExecuteQueryLoop
    \/ ExecuteQueryConnect
    \/ ExecuteQueryCursorExecute
    \/ ExecuteQueryFetch
    \/ ExecuteQueryExcept

SpecExec == InitExec /\ [][NextExec]_vars

(***************************************************************************)
(* Properties of validate_sql_query                                        *)
(***************************************************************************)

\* some deny-listed keyword occurs in s, whatever its case
HasDenyListedKeyword(s) ==
    \E k \in 1..Len(DANGEROUS_KEYWORDS) : SearchI(s, DANGEROUS_KEYWORDS[k])

\* s holds a '$' immediately followed by a word character
HasFieldToken(s) ==
    \E i \in 1..Len(s) : s[i] = "$" /\ i + 1 <= Len(s) /\ s[i + 1] \in WordChars

\* s, trimmed and upper-cased, starts with SELECT
StartsWithSelect(s) == startswith(strip(upper(s)), <<"S", "E", "L", "E", "C", "T">>)

\* s matches one of the injection patterns
MatchesInjectionPattern(s) ==
    \E p \in 1..NumInjectionPatterns : INJECTION_PATTERNS(p, s)

\* C1 (as the tests state it): a string that starts with SELECT, holds a $Field token,
\* names an allow-listed table after FROM and holds no deny-listed keyword is
\* accepted: validate_sql_query returns True.
C1_WellFormedAccepted ==
    (/\ pc = "returned"
     /\ isinstance_str(query)
     /\ StartsWithSelect(query.val)
     /\ HasFieldToken(query.val)
     /\ from_match(query.val) # 0
     /\ table_name(query.val) \in valid_tables
     /\ ~HasDenyListedKeyword(query.val))
    => ret = TRUE

\* C2: every string that holds a deny-listed keyword as a case-insensitive
\* substring is rejected, whatever surrounds the keyword.
C2_DenyListedRejected ==
    (pc = "returned" /\ isinstance_str(query) /\ HasDenyListedKeyword(query.val))
    => ret = FALSE

\* a keyword not written in upper case, inside otherwise valid syntax, rejected
C2_Witness ==
    /\ pc = "returned"
    /\ isinstance_str(query)
    /\ SearchI(query.val, <<"H", "A", "V", "I", "N", "G">>)
    /\ ~Contains(query.val, <<"H", "A", "V", "I", "N", "G">>)
    /\ StartsWithSelect(query.val)
    /\ HasFieldToken(query.val)
    /\ from_match(query.val) # 0
    /\ ret = FALSE
    /\ log[1].msg = "Dangerous keyword found in query"

\* C3: every string that, trimmed and upper-cased, does not start with SELECT
\* is rejected.
C3_NonSelectRejected ==
    (pc = "returned" /\ isinstance_str(query) /\ ~StartsWithSelect(query.val))
    => ret = FALSE

\* a string with a field token and SELECT in it, rejected by the read-only rule
C3_Witness ==
    /\ pc = "returned"
    /\ isinstance_str(query)
    /\ ~StartsWithSelect(query.val)
    /\ HasFieldToken(query.val)
    /\ SearchI(query.val, <<"S", "E", "L", "E", "C", "T">>)
    /\ ret = FALSE
    /\ log[1].msg = "Only SELECT queries are allowed"

C5_RejectedNeverExecuted ==
    ~validate_sql_query(query)
    => /\ opened = 0
       /\ conn = "none"
       /\ sent = << >>
       /\ attempt = 0
       /\ pc \in {"eq_call", "eq_raised"}
       /\ pc = "eq_raised" => exc.type = "ValueError"

\* a rejected query, with retries configured, ended in ValueError
C5_Witness ==
    /\ pc = "eq_raised"
    /\ exc.type = "ValueError"
    /\ ~validate_sql_query(query)
    /\ query.val # << >>
    /\ retry_attempts > 0
    /\ opened = 0
    /\ sent = << >>

\* C6: None, the empty string, a whitespace-only string and every value that
\* is not a str are rejected: the call returns False, and the text of a value
\* that is not a str is never examined.
C6_MalformedRejected ==
    (/\ pc = "returned"
     /\ \/ ~isinstance_str(query)
        \/ \A i \in 1..Len(query.val) : IsSpace(query.val[i]))
    => ret = FALSE

\* a truthy value that is not a str and whose text would pass as a query
C6_Witness ==
    /\ pc = "returned"
    /\ ~isinstance_str(query)
    /\ truthy(query)
    /\ validate_sql_query(PyStr(query.val))
    /\ ret = FALSE
    /\ log[1].msg = "Empty or invalid query provided"

\* C7: a query with a FROM clause is rejected unless the identifier after the
\* first FROM is, case-sensitively, an allow-listed table; a query without a
\* FROM clause skips the table check (and can be accepted).
C7_TableAllowList ==
    (pc = "returned" /\ isinstance_str(query))
    => /\ (from_match(query.val) # 0 /\ table_name(query.val) \notin valid_tables)
            => ret = FALSE
       /\ from_match(query.val) = 0
            => log[1].msg # "Invalid table name for Tally ODBC"

\* a query without a FROM clause, accepted
C7_Witness ==
    /\ pc = "returned"
    /\ isinstance_str(query)
    /\ from_match(query.val) = 0
    /\ ret = TRUE

FirstViolatedRule(q) ==
    IF q.type # "str" \/ q.val = << >>
    THEN "Empty or invalid query provided"
    ELSE IF HasDenyListedKeyword(q.val)
    THEN "Dangerous keyword found in query"
    ELSE IF MatchesInjectionPattern(q.val)
    THEN "Potential SQL injection pattern found"
    ELSE IF ~StartsWithSelect(q.val)
    THEN "Only SELECT queries are allowed"
    ELSE IF from_match(q.val) # 0 /\ table_name(q.val) \notin valid_tables
    THEN "Invalid table name for Tally ODBC"
    ELSE IF ~HasFieldToken(q.val)
    THEN "No Tally fields ($FieldName) found in query"
    ELSE "Query validation passed"

SpecScenarioDrop == PyStr(<<"S", "E", "L", "E", "C", "T", " ", "*", " ", "F", "R", "O", "M", " ", "L", "e", "d", "g", "e", "r", ";", " ", "D", "R", "O", "P", " ", "T", "A", "B", "L", "E", " ", "V", "o", "u", "c", "h", "e", "r", ";", " ", "-", "-", "'">>)

\* C10: one reason is logged for a call, that of the first rule violated in
\* the order type/emptiness, dangerous keyword, injection pattern, read-only
\* form, table allow-list, field token; the scenario query with DROP in it is
\* rejected by the dangerous-keyword rule on DROP and by nothing later.
C10_FirstViolationReported ==
    pc = "returned"
    => /\ Len(log) = 1
       /\ log[1].msg = FirstViolatedRule(query)
       /\ (ret = FALSE) = (log[1].level = "WARNING")
       /\ query = SpecScenarioDrop
            => log = << LogRecord("WARNING", "Dangerous keyword found in query",
                                  <<"D", "R", "O", "P">>) >>

\* the scenario query, rejected on DROP
C10_Witness ==
    /\ pc = "returned"
    /\ query = SpecScenarioDrop
    /\ ret = FALSE
    /\ log = << LogRecord("WARNING", "Dangerous keyword found in query", <<"D", "R", "O", "P">>) >>

SpecScenarioNoFields == PyStr(<<"S", "E", "L", "E", "C", "T", " ", "N", "a", "m", "e", ",", " ", "C", "l", "o", "s", "i", "n", "g", "B", "a", "l", "a", "n", "c", "e", " ", "F", "R", "O", "M", " ", "L", "e", "d", "g", "e", "r">>)

\* C11 (as the scenario states it): the query without $ tokens over Ledger
\* passes the keyword, injection-pattern, read-only and table checks and is
\* rejected by the field-token check, with the missing-field-tokens reason.
C11_MissingFieldTokensReported ==
    (pc = "returned" /\ query = SpecScenarioNoFields)
    => /\ ret = FALSE
       /\ log = << LogRecord("WARNING",
                             "No Tally fields ($FieldName) found in query", << >>) >>

\* C12 (as the tests state it): a SELECT over an allow-listed table with a
\* single-quoted literal in its WHERE clause is accepted, and so is an
\* aggregate-only query without a $ field.
C12_LiteralAndAggregateAccepted ==
    (/\ pc = "returned"
     /\ query \in { PyStr(<<"S", "E", "L", "E", "C", "T", " ", "$", "N", "a", "m", "e", ",", " ", "$", "C", "l", "o", "s", "i", "n", "g", "B", "a", "l", "a", "n", "c", "e", " ", "F", "R", "O", "M", " ", "L", "e", "d", "g", "e", "r", " ", "W", "H", "E", "R", "E", " ", "$", "P", "a", "r", "e", "n", "t", " ", "=", " ", "'", "A", "s", "s", "e", "t", "s", "'">>),
                    PyStr(<<"S", "E", "L", "E", "C", "T", " ", "C", "O", "U", "N", "T", "(", "*", ")", " ", "F", "R", "O", "M", " ", "V", "o", "u", "c", "h", "e", "r">>) })
    => ret = TRUE

(***************************************************************************)
(* security.py: sanitize_input                                             *)
(***************************************************************************)

\* the default of max_length
DefaultMaxLength == 255

\* s[:n]
slice_to(s, n) ==
    IF n >= 0
    THEN SubSeq(s, 1, IF n < Len(s) THEN n ELSE Len(s))
    ELSE SubSeq(s, 1, Len(s) + n)

\* the characters of the class [<>\"';\\]
DangerousChars == {"<", ">", "\"", "'", ";", "\\"}

\* re.sub(r"[<>\"';\\]", "", s)
remove_dangerous(s) == SelectSeq(s, LAMBDA c : c \notin DangerousChars)

\* re.sub(r'\s+', ' ', s): of each run of whitespace the first position is
\* kept, as one space
collapse_whitespace(s) ==
    LET kept == SelectSeq([i \in 1..Len(s) |-> i],
                          LAMBDA i : ~(IsSpace(s[i]) /\ i > 1 /\ IsSpace(s[i - 1])))
    IN  [k \in 1..Len(kept) |-> IF IsSpace(s[kept[k]]) THEN " " ELSE s[kept[k]]]

\* the dangerous characters removed before the length is limited
sanitize_input_strip_first(value, n) ==
    IF ~truthy(value)
    THEN << >>
    ELSE strip(collapse_whitespace(slice_to(remove_dangerous(value.val), n)))

\* sanitize_input(input_value, max_length); value.val is str(input_value)
sanitize_input(value, n) ==
    IF ~truthy(value)
    THEN << >>
    ELSE strip(collapse_whitespace(remove_dangerous(slice_to(value.val, n))))

\* the inputs of test_input_sanitization
LongInput == <<"v", "e", "r", "y", " ", "l", "o", "n", "g", " ">> \o [i \in 1..300 |-> "x"] \o <<" ", "t", "e", "x", "t">>

SanitizeTests ==
    { <<"n", "o", "r", "m", "a", "l", " ", "t", "e", "x", "t">>,
      <<"t", "e", "x", "t", " ", "w", "i", "t", "h", " ", "<", "s", "c", "r", "i", "p", "t", ">">>,
      <<"t", "e", "x", "t", " ", "w", "i", "t", "h", " ", "'", "q", "u", "o", "t", "e", "s", "'">>,
      <<"t", "e", "x", "t", " ", "w", "i", "t", "h", " ", "\"", "d", "o", "u", "b", "l", "e", " ", "q", "u", "o", "t", "e", "s", "\"">>,
      <<"t", "e", "x", "t", " ", " ", " ", "w", "i", "t", "h", " ", " ", " ", "s", "p", "a", "c", "e", "s">>,
      <<"t", "e", "x", "t", " ", "w", "i", "t", "h", ";", " ", "s", "e", "m", "i", "c", "o", "l", "o", "n">>,
      LongInput }

SanitizeAlphabet == << "a", " ", "<", ";", "\t" >>

MaxInputLen == 4

\* every string of at most MaxInputLen characters of the alphabet
SanitizeStrings ==
    UNION {{[i \in 1..n |-> SanitizeAlphabet[f[i]]] :
              f \in [1..n -> 1..Len(SanitizeAlphabet)]} : n \in 0..MaxInputLen}

InitSanitize ==
    /\ \/ /\ input_value \in {PyStr(s) : s \in SanitizeStrings}
                             \cup {PyOther("NoneType", <<"N", "o", "n", "e">>),
                                   PyOther("int", <<"0">>),
                                   PyOther("int", <<"1", "2", "3", "4">>)}
          /\ max_length \in (-1)..MaxInputLen
       \/ /\ input_value \in {PyStr(s) : s \in SanitizeTests}
          /\ max_length = DefaultMaxLength
    /\ sanitized = << >>
    /\ pc = "call"
    /\ query = PyStr(<< >>)
    /\ ret = FALSE
    /\ log = << >>
    /\ params = << >>
    /\ fetch_all = TRUE
    /\ retry_attempts = MaxRetryAttempts
    /\ db_rows = 0
    /\ attempt = 0
    /\ results = << >>
    /\ conn = "none"
    /\ opened = 0
    /\ sent = << >>
    /\ exc = NoException
    /\ FormatIdle
    /\ StrictIdle
    /\ ServiceIdle
    /\ ParamsIdle

\* sanitize_input(input_value, max_length)
Sanitize ==
    /\ pc = "call"
    /\ pc' = "returned"
    /\ sanitized' = sanitize_input(input_value, max_length)
    /\ UNCHANGED << query, ret, log, execVars, input_value, max_length,
                    formatVars, strictVars, serviceVars, paramVars >>

NextSanitize == Sanitize

SpecSanitize == InitSanitize /\ [][NextSanitize]_vars

(***************************************************************************)
(* Properties of sanitize_input                                            *)
(***************************************************************************)

\* the first n characters of s
FirstChars(s, n) == [i \in 1..(IF n < Len(s) THEN n ELSE Len(s)) |-> s[i]]

\* s without the characters < > " ' ; \ (halving s keeps the recursion shallow)
RECURSIVE WithoutStripped(_)
WithoutStripped(s) ==
    IF s = << >> THEN << >>
    ELSE IF Len(s) = 1
         THEN IF s[1] \in {"<", ">", "\"", "'", ";", "\\"} THEN << >> ELSE s
         ELSE WithoutStripped(SubSeq(s, 1, Len(s) \div 2))
                \o WithoutStripped(SubSeq(s, Len(s) \div 2 + 1, Len(s)))

\* last position of the run of characters that are not whitespace and that
\* starts at i
SkipSpaceEnd(s, i) ==
    CHOOSE j \in i..Len(s) :
        /\ \A k \in i..j : ~IsSpace(s[k])
        /\ (j = Len(s) \/ IsSpace(s[j + 1]))

\* the words of s: its maximal runs of characters that are not whitespace
WordsOf(s) ==
    LET starts == SelectSeq([i \in 1..Len(s) |-> i],
                            LAMBDA i : ~IsSpace(s[i]) /\ (i = 1 \/ IsSpace(s[i - 1])))
    IN  [k \in 1..Len(starts) |-> SubSeq(s, starts[k], SkipSpaceEnd(s, starts[k]))]

\* the words joined by single spaces
RECURSIVE JoinWords(_)
JoinWords(ws) ==
    IF ws = << >> THEN << >>
    ELSE IF Len(ws) = 1 THEN ws[1]
    ELSE ws[1] \o << " " >> \o JoinWords(Tail(ws))

C14_BothEndsKept ==
    (pc = "returned" /\ input_value = PyStr(LongInput) /\ max_length = DefaultMaxLength)
    => sanitized = <<"v", "e", "r", "y", " ", "l", "o", "n", "g", " ">> \o [i \in 1..239 |-> "x"] \o <<" ", "t", "e", "x", "t">>

(***************************************************************************)
(* security.py: validate_date_input, validate_amount_input                 *)
(***************************************************************************)

\* \d{n} matches at position p
DigitsAt(s, p, n) ==
    /\ p >= 1
    /\ p + n - 1 <= Len(s)
    /\ \A i \in p..(p + n - 1) : s[i] \in Digits

\* $ (no re.MULTILINE) matches at position p: at the end of the string, and
\* just before a newline that is the last character of the string
EndAnchor(s, p) ==
    \/ p = Len(s) + 1
    \/ (p = Len(s) /\ p >= 1 /\ s[p] = "\n")

\* the three date_patterns: ^\d{n1} sep \d{n2} sep \d{n3}$
date_patterns ==
    << [n1 |-> 4, sep |-> "-", n2 |-> 2, n3 |-> 2],
       [n1 |-> 2, sep |-> "/", n2 |-> 2, n3 |-> 4],
       [n1 |-> 2, sep |-> "-", n2 |-> 2, n3 |-> 4] >>

\* re.match(pattern, date_str)
date_match(p, s) ==
    /\ DigitsAt(s, 1, p.n1)
    /\ At(s, << p.sep >>, p.n1 + 1)
    /\ DigitsAt(s, p.n1 + 2, p.n2)
    /\ At(s, << p.sep >>, p.n1 + p.n2 + 2)
    /\ DigitsAt(s, p.n1 + p.n2 + 3, p.n3)
    /\ EndAnchor(s, p.n1 + p.n2 + p.n3 + 3)

\* validate_date_input(date_str)
validate_date_input(s) ==
    IF s = << >>
    THEN TRUE
    ELSE \E k \in 1..Len(date_patterns) : date_match(date_patterns[k], s)

\* the positions reached from p by (,\d{3})*
RECURSIVE AfterGroups(_, _)
AfterGroups(s, p) ==
    {p} \cup (IF At(s, << "," >>, p) /\ DigitsAt(s, p + 1, 3)
              THEN AfterGroups(s, p + 4)
              ELSE {})

\* (\.\d{2})?$ matches at position p
DecimalsThenEnd(s, p) ==
    \/ EndAnchor(s, p)
    \/ (At(s, << "." >>, p) /\ DigitsAt(s, p + 1, 2) /\ EndAnchor(s, p + 3))

\* re.match of ^\d{1,3}(,\d{3})*(\.\d{2})?$
amount_grouped(s) ==
    \E n \in 1..3 :
        /\ DigitsAt(s, 1, n)
        /\ \E p \in AfterGroups(s, n + 1) : DecimalsThenEnd(s, p)

\* re.match of ^\d+(\.\d{2})?$
amount_plain(s) ==
    \E n \in 1..Len(s) : DigitsAt(s, 1, n) /\ DecimalsThenEnd(s, n + 1)

\* validate_amount_input(amount_str)
validate_amount_input(s) ==
    IF s = << >>
    THEN TRUE
    ELSE amount_grouped(s) \/ amount_plain(s)

\* the dates of test_date_validation
DateTests ==
    { <<"2", "0", "2", "4", "-", "0", "1", "-", "1", "5">>, <<"1", "5", "/", "0", "1", "/", "2", "0", "2", "4">>, <<"1", "5", "-", "0", "1", "-", "2", "0", "2", "4">>, << >>,
      <<"2", "0", "2", "4", "-", "1", "3", "-", "0", "1">>, <<"1", "5", "/", "1", "3", "/", "2", "0", "2", "4">>, <<"2", "0", "2", "4", "/", "0", "1", "/", "1", "5">>,
      <<"J", "a", "n", "u", "a", "r", "y", " ", "1", "5", ",", " ", "2", "0", "2", "4">>, <<"n", "o", "t", "-", "a", "-", "d", "a", "t", "e">> }

DateLeads == { << >>, <<" ">> }

DateGroups == { <<"2", "0", "2", "4">>, <<"1", "5">>, <<"1", "3">>, <<"0", "1">>, <<"1">>, <<"2", "o", "2", "4">> }

DateSeps == { <<"-">>, <<"/">>, <<":">> }

DateTails == { << >>, <<"\n">>, <<"\n", "\n">>, <<"T", "1", "0", ":", "0", "0">> }

\* three groups with two separators, after a lead and before a tail
DateStrings ==
    { l \o g[1] \o s1 \o g[2] \o s2 \o g[3] \o t :
        l \in DateLeads, g \in [1..3 -> DateGroups],
        s1 \in DateSeps, s2 \in DateSeps, t \in DateTails }

InitDate ==
    /\ date_str \in DateStrings \cup DateTests
    /\ amount_str = << >>
    /\ valid = FALSE
    /\ pc = "call"
    /\ query = PyStr(<< >>)
    /\ ret = FALSE
    /\ log = << >>
    /\ params = << >>
    /\ fetch_all = TRUE
    /\ retry_attempts = MaxRetryAttempts
    /\ db_rows = 0
    /\ attempt = 0
    /\ results = << >>
    /\ conn = "none"
    /\ opened = 0
    /\ sent = << >>
    /\ exc = NoException
    /\ SanitizeIdle
    /\ StrictIdle
    /\ ServiceIdle
    /\ ParamsIdle

ValidateDate ==
    /\ pc = "call"
    /\ pc' = "returned"
    /\ valid' = validate_date_input(date_str)
    /\ UNCHANGED << query, ret, log, execVars, sanitizeVars, date_str,
                    amount_str, strictVars, serviceVars, paramVars >>

NextDate == ValidateDate

SpecDate == InitDate /\ [][NextDate]_vars

\* the amounts of test_amount_validation
AmountTests ==
    { <<"1", "0", "0", "0">>, <<"1", ",", "0", "0", "0">>, <<"1", ",", "0", "0", "0", ".", "0", "0">>, <<"1", "0", "0", "0", "0", "0", ".", "5", "0">>, <<"1", ",", "2", "3", ",", "4", "5", "6", ".", "7", "8">>, << >>,
      <<"1", ",", "0", "0", ",", "0", "0", "0", ".", "1", "2", "3">>, <<"1", ",", "0", "0", "0", "0">>, <<"a", "b", "c">>, <<"1", "0", "0", "0", ".", "5", ".", "5">>, <<"-", "1", "0", "0", "0">> }

AmountHeads ==
    { << >>, <<"1">>, <<"1", "2">>, <<"1", "2", "3">>, <<"1", "2", "3", "4">>, <<"0", "0", "0", "1">>, <<"-", "1">>, <<"a">> }

AmountGroups == << <<",", "0", "0", "0">>, <<",", "2", "3">>, <<",", "0", "0", "0", "0">>, <<",", "4", "5", "6">> >>

AmountDecimals == { << >>, <<".", "7", "8">>, <<".", "5">>, <<".", "1", "2", "3">>, <<".", "5", ".", "5">> }

AmountTails == { << >>, <<"\n">>, <<" ">> }

MaxGroups == 2

RECURSIVE ConcatGroups(_)
ConcatGroups(gs) ==
    IF gs = << >> THEN << >> ELSE AmountGroups[Head(gs)] \o ConcatGroups(Tail(gs))

\* a head, at most MaxGroups comma groups, decimals and a tail
AmountStrings ==
    { h \o ConcatGroups(gs) \o d \o t :
        h \in AmountHeads,
        gs \in UNION {[1..n -> 1..Len(AmountGroups)] : n \in 0..MaxGroups},
        d \in AmountDecimals, t \in AmountTails }

InitAmount ==
    /\ amount_str \in AmountStrings \cup AmountTests
    /\ date_str = << >>
    /\ valid = FALSE
    /\ pc = "call"
    /\ query = PyStr(<< >>)
    /\ ret = FALSE
    /\ log = << >>
    /\ params = << >>
    /\ fetch_all = TRUE
    /\ retry_attempts = MaxRetryAttempts
    /\ db_rows = 0
    /\ attempt = 0
    /\ results = << >>
    /\ conn = "none"
    /\ opened = 0
    /\ sent = << >>
    /\ exc = NoException
    /\ SanitizeIdle
    /\ StrictIdle
    /\ ServiceIdle
    /\ ParamsIdle

ValidateAmount ==
    /\ pc = "call"
    /\ pc' = "returned"
    /\ valid' = validate_amount_input(amount_str)
    /\ UNCHANGED << query, ret, log, execVars, sanitizeVars, date_str,
                    amount_str, strictVars, serviceVars, paramVars >>

NextAmount == ValidateAmount

SpecAmount == InitAmount /\ [][NextAmount]_vars

(***************************************************************************)
(* The accepted shapes, stated on their own                                *)
(***************************************************************************)

\* s is n1 digits, the separator, n2 digits, the separator, n3 digits, and
\* nothing else
DateShape(s, n1, sep, n2, n3) ==
    /\ Len(s) = n1 + n2 + n3 + 2
    /\ \A i \in 1..Len(s) :
          IF i = n1 + 1 \/ i = n1 + n2 + 2 THEN s[i] = sep ELSE s[i] \in Digits

IsDateShape(s) ==
    \/ DateShape(s, 4, "-", 2, 2)
    \/ DateShape(s, 2, "/", 2, 4)
    \/ DateShape(s, 2, "-", 2, 4)

\* C15: validate_date_input returns True exactly for the empty string and
\* for the shapes YYYY-MM-DD, DD/MM/YYYY and DD-MM-YYYY; every other string
\* returns False.
C15_ExactDateShapes ==
    pc = "returned" => (valid <=> (date_str = << >> \/ IsDateShape(date_str)))

\* C16: validate_date_input("2024-13-01") and validate_date_input("15/13/2024")
\* return False.
C16_MonthOutOfRangeRejected ==
    (pc = "returned" /\ date_str \in { <<"2", "0", "2", "4", "-", "1", "3", "-", "0", "1">>, <<"1", "5", "/", "1", "3", "/", "2", "0", "2", "4">> })
    => valid = FALSE

\* b is 1-3 digits followed by zero or more groups of a comma and three digits
IsGrouped(b) ==
    \E n \in 1..3 :
        /\ n <= Len(b)
        /\ (Len(b) - n) % 4 = 0
        /\ \A i \in 1..Len(b) :
              IF i > n /\ (i - n) % 4 = 1 THEN b[i] = "," ELSE b[i] \in Digits

\* b is a run of one or more digits
IsPlain(b) == Len(b) >= 1 /\ \A i \in 1..Len(b) : b[i] \in Digits

\* s without a final "." and two digits, if it ends so
WithoutDecimals(s) ==
    IF /\ Len(s) >= 3
       /\ s[Len(s) - 2] = "."
       /\ s[Len(s) - 1] \in Digits
       /\ s[Len(s)] \in Digits
    THEN SubSeq(s, 1, Len(s) - 3)
    ELSE s

IsAmountShape(s) == IsGrouped(WithoutDecimals(s)) \/ IsPlain(WithoutDecimals(s))

\* C17: validate_amount_input returns True exactly for the empty string and
\* for 1-3 digits followed by zero or more ",ddd" groups, or a plain run of
\* digits, each optionally followed by "." and exactly two digits; every
\* other string returns False.
C17_ExactAmountShapes ==
    pc = "returned" => (valid <=> (amount_str = << >> \/ IsAmountShape(amount_str)))

\* C18: validate_amount_input("1,23,456.78") returns True.
C18_IndianGroupingAccepted ==
    (pc = "returned" /\ amount_str = <<"1", ",", "2", "3", ",", "4", "5", "6", ".", "7", "8">>) => valid = TRUE

(***************************************************************************)
(* security.py: log_security_event, SecurityValidator                      *)
(***************************************************************************)

\* self.allowed_functions
allowed_functions ==
    { <<"S", "U", "M">>, <<"C", "O", "U", "N", "T">>, <<"A", "V", "G">>, <<"M", "A", "X">>, <<"M", "I", "N">>, <<"U", "P", "P", "E", "R">>, <<"L", "O", "W", "E", "R">>,
      <<"L", "E", "N">>, <<"S", "U", "B", "S", "T", "R", "I", "N", "G">>, <<"C", "A", "S", "T">>, <<"C", "O", "N", "V", "E", "R", "T">>, <<"Y", "E", "A", "R">>, <<"M", "O", "N", "T", "H">>, <<"D", "A", "Y">> }

\* log_security_event(event_type, details): one record at the default
\* severity, WARNING
log_security_event(event_type, details, detail) ==
    LogRecord("WARNING", "SECURITY EVENT - " \o event_type \o ": " \o details, detail)

\* (\w+)\s*\( matches with the group starting at position i: the scan finds
\* a run of word characters only from its first character
FunctionCallAt(s, i) ==
    /\ IsWord(s[i])
    /\ (i = 1 \/ ~IsWord(s[i - 1]))
    /\ SkipSpace(s, WordEnd(s, i) + 1) <= Len(s)
    /\ s[SkipSpace(s, WordEnd(s, i) + 1)] = "("

\* re.findall(r'(\w+)\s*\(', query, re.IGNORECASE)
functions(s) ==
    LET starts == SelectSeq([i \in 1..Len(s) |-> i], LAMBDA i : FunctionCallAt(s, i))
    IN  [k \in 1..Len(starts) |-> SubSeq(s, starts[k], WordEnd(s, starts[k]))]

\* the names compared as they are written
_check_function_whitelist_case_sensitive(s) ==
    LET fs  == functions(s)
        bad == { k \in 1..Len(fs) : fs[k] \notin allowed_functions }
    IN  IF bad = {}
        THEN [ret |-> TRUE, log |-> << >>]
        ELSE [ret |-> FALSE,
              log |-> << log_security_event("UNAUTHORIZED_FUNCTION",
                             "Function not in whitelist",
                             fs[CHOOSE k \in bad : \A j \in bad : k <= j]) >>]

\* SecurityValidator._check_function_whitelist(query)
_check_function_whitelist(s) ==
    LET fs  == functions(s)
        bad == { k \in 1..Len(fs) : upper(fs[k]) \notin allowed_functions }
    IN  IF bad = {}
        THEN [ret |-> TRUE, log |-> << >>]
        ELSE [ret |-> FALSE,
              log |-> << log_security_event("UNAUTHORIZED_FUNCTION",
                             "Function not in whitelist",
                             fs[CHOOSE k \in bad : \A j \in bad : k <= j]) >>]

\* \(.*SELECT.*\) with re.IGNORECASE matches from position i
SubqueryAt(s, i) ==
    /\ s[i] = "("
    /\ \E j \in (i + 1)..Len(s) :
          /\ AtI(s, <<"S", "E", "L", "E", "C", "T">>, j)
          /\ DotStar(s, i + 1, j - 1)
          /\ \E k \in (j + 6)..Len(s) : s[k] = ")" /\ DotStar(s, j + 6, k - 1)

\* len(re.findall(r'\(.*SELECT.*\)', query, re.IGNORECASE)): a match starts
\* at the leftmost such position and, .* being greedy, runs to the last ")"
\* of the line, so the next match starts on a later line
subquery_count(s) ==
    Cardinality({ i \in 1..Len(s) :
                    /\ SubqueryAt(s, i)
                    /\ ~\E h \in 1..(i - 1) : SubqueryAt(s, h) /\ DotStar(s, h, i) })

\* len(re.findall(r'\bJOIN\b', query, re.IGNORECASE))
join_count(s) == Cardinality({ i \in 1..Len(s) : WordAtI(s, <<"J", "O", "I", "N">>, i) })

MaxSubqueries == 2

MaxJoins == 3

MaxQueryLength == 2000

\* SecurityValidator._check_complexity(query)
_check_complexity(s) ==
    IF subquery_count(s) > MaxSubqueries THEN FALSE
    ELSE IF join_count(s) > MaxJoins THEN FALSE
    ELSE IF Len(s) > MaxQueryLength THEN FALSE
    ELSE TRUE

\* the function allow-list consulted before basic validation
validate_query_whitelist_first(strict, q) ==
    LET basic == validate_sql_query_call(q)
    IN  IF strict /\ isinstance_str(q) /\ ~_check_function_whitelist(q.val).ret
        THEN [is_valid |-> FALSE, error |-> "Query contains non-whitelisted functions",
              basic |-> basic.ret, log |-> _check_function_whitelist(q.val).log]
        ELSE IF ~basic.ret
        THEN [is_valid |-> FALSE, error |-> "Query failed basic security validation",
              basic |-> FALSE, log |-> basic.log]
        ELSE IF strict /\ ~_check_complexity(q.val)
        THEN [is_valid |-> FALSE, error |-> "Query is too complex",
              basic |-> TRUE, log |-> basic.log]
        ELSE [is_valid |-> TRUE, error |-> "None", basic |-> TRUE, log |-> basic.log]

\* SecurityValidator(strict).validate_query(q): the pair returned, the
\* result of the call of validate_sql_query, and the records logged
validate_query(strict, q) ==
    LET basic == validate_sql_query_call(q)
    IN  IF ~basic.ret
        THEN [is_valid |-> FALSE, error |-> "Query failed basic security validation",
              basic |-> FALSE, log |-> basic.log]
        ELSE IF strict /\ ~_check_function_whitelist(q.val).ret
        THEN [is_valid |-> FALSE, error |-> "Query contains non-whitelisted functions",
              basic |-> TRUE, log |-> basic.log \o _check_function_whitelist(q.val).log]
        ELSE IF strict /\ ~_check_complexity(q.val)
        THEN [is_valid |-> FALSE, error |-> "Query is too complex",
              basic |-> TRUE, log |-> basic.log]
        ELSE [is_valid |-> TRUE, error |-> "None", basic |-> TRUE, log |-> basic.log]

\* the short queries of test_security_validator_class, test_function_whitelist
\* and test_query_complexity_limits
StrictTests ==
    { <<"S", "E", "L", "E", "C", "T", " ", "$", "N", "a", "m", "e", ",", " ", "S", "U", "M", "(", "$", "C", "l", "o", "s", "i", "n", "g", "B", "a", "l", "a", "n", "c", "e", ")", " ", "F", "R", "O", "M", " ", "L", "e", "d", "g", "e", "r", " ", "G", "R", "O", "U", "P", " ", "B", "Y", " ", "$", "P", "a", "r", "e", "n", "t">>,
      <<"S", "E", "L", "E", "C", "T", " ", "$", "N", "a", "m", "e", ",", " ", "E", "X", "E", "C", "(", "'", "m", "a", "l", "i", "c", "i", "o", "u", "s", "'", ")", " ", "F", "R", "O", "M", " ", "L", "e", "d", "g", "e", "r">>,
      <<"S", "E", "L", "E", "C", "T", " ", "$", "N", "a", "m", "e", ",", " ", "S", "U", "M", "(", "$", "A", "m", "o", "u", "n", "t", ")", ",", " ", "C", "O", "U", "N", "T", "(", "*", ")", ",", " ", "M", "A", "X", "(", "$", "D", "a", "t", "e", ")", " ", "F", "R", "O", "M", " ", "V", "o", "u", "c", "h", "e", "r">>,
      <<"S", "E", "L", "E", "C", "T", " ", "$", "N", "a", "m", "e", ",", " ", "E", "X", "E", "C", "(", "'", "c", "o", "m", "m", "a", "n", "d", "'", ")", " ", "F", "R", "O", "M", " ", "L", "e", "d", "g", "e", "r">>,
      <<"S", "E", "L", "E", "C", "T", " ", "$", "N", "a", "m", "e", " ", "F", "R", "O", "M", " ", "L", "e", "d", "g", "e", "r">> }

\* the strict-mode scenario of the specification
StrictScenarioExec == PyStr(<<"S", "E", "L", "E", "C", "T", " ", "$", "N", "a", "m", "e", ",", " ", "E", "X", "E", "C", "(", "'", "x", "'", ")", " ", "F", "R", "O", "M", " ", "L", "e", "d", "g", "e", "r">>)

StrictPrefix == <<"S", "E", "L", "E", "C", "T", " ", "$", "a">>

StrictFrags ==
    << <<",", " ", "S", "U", "M", "(", "$", "b", ")">>,
       <<",", " ", "s", "u", "m", " ", "(", "$", "b", ")">>,
       <<",", " ", "f", "o", "o", "(", "$", "b", ")">>,
       <<",", " ", "l", "e", "n", "\n", "(", "$", "b", ")">>,
       <<",", " ", "(", "S", "E", "L", "E", "C", "T", " ", "$", "c", ")">>,
       <<"\n", ",", " ", "(", "s", "e", "l", "e", "c", "t", " ", "$", "c", ")">>,
       <<" ", "J", "O", "I", "N", " ", "x">>,
       <<" ", "j", "o", "i", "n", " ", "x", " ", "J", "O", "I", "N", " ", "y">>,
       <<" ", "I", "N", " ", "(", "1", ")">> >>

MaxStrictFrags == 3

RECURSIVE ConcatStrict(_)
ConcatStrict(fs) ==
    IF fs = << >> THEN << >> ELSE StrictFrags[Head(fs)] \o ConcatStrict(Tail(fs))

\* the prefix followed by at most MaxStrictFrags fragments
StrictQueries ==
    { StrictPrefix \o ConcatStrict(fs) :
        fs \in UNION {[1..n -> 1..Len(StrictFrags)] : n \in 0..MaxStrictFrags} }

\* one field token, of MaxQueryLength characters and of one more
LongQueries ==
    { <<"S", "E", "L", "E", "C", "T", " ", "$">> \o [i \in 1..n |-> "a"] :
        n \in {MaxQueryLength - 8, MaxQueryLength - 7} }

InitStrict ==
    /\ query \in { PyStr(q) : q \in StrictQueries \cup LongQueries \cup StrictTests }
               \cup NonStrings \cup { StrictScenarioExec }
    /\ strict_mode \in BOOLEAN
    /\ verdict = [is_valid |-> FALSE, error |-> "None"]
    /\ pc = "call"
    /\ ret = FALSE
    /\ log = << >>
    /\ params = << >>
    /\ fetch_all = TRUE
    /\ retry_attempts = MaxRetryAttempts
    /\ db_rows = 0
    /\ attempt = 0
    /\ results = << >>
    /\ conn = "none"
    /\ opened = 0
    /\ sent = << >>
    /\ exc = NoException
    /\ SanitizeIdle
    /\ FormatIdle
    /\ ServiceIdle
    /\ ParamsIdle

\* validate_query: ret is what its call of validate_sql_query returned
ValidateQuery ==
    /\ pc = "call"
    /\ pc' = "returned"
    /\ verdict' = [is_valid |-> validate_query(strict_mode, query).is_valid,
                   error |-> validate_query(strict_mode, query).error]
    /\ ret' = validate_query(strict_mode, query).basic
    /\ log' = validate_query(strict_mode, query).log
    /\ UNCHANGED << query, execVars, sanitizeVars, formatVars, strict_mode,
                    serviceVars, paramVars >>

NextStrict == ValidateQuery

SpecStrict == InitStrict /\ [][NextStrict]_vars

(***************************************************************************)
(* The strict-mode rules, stated on their own                              *)
(***************************************************************************)

\* the identifier that is followed by the "(" at position k, whitespace
\* allowed in between: the longest run of word characters that ends at the
\* last character before k that is not whitespace (empty if there is none)
IdentifierBefore(s, k) ==
    LET solid == { j \in 1..(k - 1) : ~IsSpace(s[j]) }
        e     == IF solid = {} THEN 0 ELSE CHOOSE j \in solid : \A h \in solid : h <= j
        begin == { i \in 1..e : \A h \in i..e : IsWord(s[h]) }
    IN  IF begin = {} THEN << >>
        ELSE SubSeq(s, CHOOSE i \in begin : \A h \in begin : i <= h, e)

\* the identifiers of s that are followed by "("
CalledIdentifiers(s) ==
    { IdentifierBefore(s, k) : k \in { h \in 1..Len(s) : s[h] = "(" } } \ { << >> }

NotWhitelisted == "Query contains non-whitelisted functions"

\* C19: in strict mode a query that passes basic validation and holds an
\* identifier followed by "(" (whitespace allowed in between) whose
\* upper-cased name is not on the allow-list is rejected with the reason
\* "Query contains non-whitelisted functions"; a query whose called
\* identifiers are all on the list is not rejected with that reason.
C19_FunctionWhitelist ==
    (pc = "returned" /\ strict_mode /\ ret)
    => IF \E w \in CalledIdentifiers(query.val) :
             upper(w) \notin { <<"S", "U", "M">>, <<"C", "O", "U", "N", "T">>, <<"A", "V", "G">>, <<"M", "A", "X">>, <<"M", "I", "N">>,
                               <<"U", "P", "P", "E", "R">>, <<"L", "O", "W", "E", "R">>, <<"L", "E", "N">>, <<"S", "U", "B", "S", "T", "R", "I", "N", "G">>,
                               <<"C", "A", "S", "T">>, <<"C", "O", "N", "V", "E", "R", "T">>, <<"Y", "E", "A", "R">>, <<"M", "O", "N", "T", "H">>, <<"D", "A", "Y">> }
       THEN verdict = [is_valid |-> FALSE, error |-> NotWhitelisted]
       ELSE verdict.error # NotWhitelisted

\* a query that passed basic validation, calls foo and is rejected for it
C19_Witness ==
    /\ pc = "returned"
    /\ strict_mode
    /\ ret
    /\ <<"f", "o", "o">> \in CalledIdentifiers(query.val)
    /\ verdict = [is_valid |-> FALSE, error |-> NotWhitelisted]

\* the number of "(" of s that open a sub-select: the next thing after the
\* parenthesis is the keyword SELECT
SubSelects(s) ==
    Cardinality({ i \in 1..Len(s) :
                    s[i] = "(" /\ WordAtI(s, <<"S", "E", "L", "E", "C", "T">>, SkipSpace(s, i + 1)) })

\* C20: in strict mode a query with more than 2 parenthesized sub-selects,
\* or more than 3 occurrences of the keyword JOIN, or more than 2000
\* characters is rejected; a query at or below all three limits is not
\* rejected with the reason "Query is too complex".
C20_ComplexityCeilings ==
    (pc = "returned" /\ strict_mode /\ isinstance_str(query))
    => IF \/ SubSelects(query.val) > 2
          \/ Cardinality({ i \in 1..Len(query.val) : WordAtI(query.val, <<"J", "O", "I", "N">>, i) }) > 3
          \/ Len(query.val) > 2000
       THEN verdict.is_valid = FALSE
       ELSE verdict.error # "Query is too complex"

\* C21: validate_query returns a pair whose reason is None exactly when
\* is_valid is True; on failure the reason is one of three distinct strings;
\* basic validation is evaluated first, so a query it rejects is reported
\* as a basic-validation failure, "SELECT $Name, EXEC('x') FROM Ledger"
\* included.
C21_ReasonMatchesVerdict ==
    pc = "returned"
    => /\ verdict.is_valid <=> verdict.error = "None"
       /\ ~verdict.is_valid =>
             verdict.error \in { "Query failed basic security validation",
                                 "Query contains non-whitelisted functions",
                                 "Query is too complex" }
       /\ ~ret => verdict.error = "Query failed basic security validation"
       /\ query = StrictScenarioExec =>
             verdict = [is_valid |-> FALSE,
                        error |-> "Query failed basic security validation"]

\* the scenario query, which also calls a function off the allow-list, has
\* been judged in strict mode
C21_Witness ==
    /\ pc = "returned"
    /\ strict_mode
    /\ query = StrictScenarioExec
    /\ <<"E", "X", "E", "C">> \in CalledIdentifiers(query.val)
    /\ verdict.error = "Query failed basic security validation"

\* C22: a strict-mode validator returns (True, None) for the short SELECTs
\* of the tests, which read an allow-listed table, use $ fields and call
\* only whitelisted functions.
C22_WhitelistedQueriesAccepted ==
    (/\ pc = "returned"
     /\ strict_mode
     /\ query \in { PyStr(<<"S", "E", "L", "E", "C", "T", " ", "$", "N", "a", "m", "e", ",", " ", "S", "U", "M", "(", "$", "C", "l", "o", "s", "i", "n", "g", "B", "a", "l", "a", "n", "c", "e", ")", " ", "F", "R", "O", "M", " ", "L", "e", "d", "g", "e", "r", " ", "G", "R", "O", "U", "P", " ", "B", "Y", " ", "$", "P", "a", "r", "e", "n", "t">>),
                    PyStr(<<"S", "E", "L", "E", "C", "T", " ", "$", "N", "a", "m", "e", ",", " ", "S", "U", "M", "(", "$", "A", "m", "o", "u", "n", "t", ")", ",", " ", "C", "O", "U", "N", "T", "(", "*", ")", ",", " ", "M", "A", "X", "(", "$", "D", "a", "t", "e", ")", " ", "F", "R", "O", "M", " ", "V", "o", "u", "c", "h", "e", "r">>),
                    PyStr(<<"S", "E", "L", "E", "C", "T", " ", "$", "N", "a", "m", "e", " ", "F", "R", "O", "M", " ", "L", "e", "d", "g", "e", "r">>) })
    => verdict = [is_valid |-> TRUE, error |-> "None"]

(***************************************************************************)
(* tally_service.py: TallyService.execute_custom_query                     *)
(***************************************************************************)

\* execute_custom_query(query, params) calls execute_query with the default
\* fetch_all
InitService ==
    /\ InitExec
    /\ fetch_all = TRUE

\* lines 329-339: execute_query returned data
ExecuteCustomQueryReturn ==
    /\ pc = "eq_returned"
    /\ pc' = "cq_returned"
    /\ response' = [success |-> TRUE,
                    message |-> "Query executed successfully, returned rows",
                    count   |-> Len(results)]
    /\ UNCHANGED << query, ret, log, execVars, sanitizeVars, formatVars,
                    strictVars, paramVars >>

\* a handler that passes on what the validator logged
ExecuteCustomQueryExceptVerbose ==
    /\ pc = "eq_raised"
    /\ pc' = "cq_returned"
    /\ response' = [success |-> FALSE,
                    message |-> "Query execution failed: "
                                  \o (IF log = << >> THEN exc.msg ELSE log[Len(log)].msg),
                    count   |-> -1]
    /\ UNCHANGED << query, ret, log, execVars, sanitizeVars, formatVars,
                    strictVars, paramVars >>

\* lines 340-345: except Exception as e
ExecuteCustomQueryExcept ==
    /\ pc = "eq_raised"
    /\ pc' = "cq_returned"
    /\ response' = [success |-> FALSE,
                    message |-> "Query execution failed: " \o exc.msg,
                    count   |-> -1]
    /\ UNCHANGED << query, ret, log, execVars, sanitizeVars, formatVars,
                    strictVars, paramVars >>

NextService ==
    \/ NextExec
    \/ ExecuteCustomQueryReturn
    \/ ExecuteCustomQueryExcept

SpecService == InitService /\ [][NextService]_vars

\* C23: whichever rule rejected the query, execute_query raises the same
\* ValueError and execute_custom_query returns the same failure message;
\* what was found is in the log only.
C23_GenericRejection ==
    /\ (pc = "eq_raised" /\ ~ret)
       => exc = [type |-> "ValueError",
                 msg  |-> "Query validation failed - potential SQL injection detected"]
    /\ (pc = "cq_returned" /\ ~ret)
       => /\ exc = [type |-> "ValueError",
                    msg  |-> "Query validation failed - potential SQL injection detected"]
          /\ response =
               [success |-> FALSE,
                message |-> "Query execution failed: Query validation failed - potential SQL injection detected",
                count   |-> -1]

\* a query rejected for a deny-listed keyword, named in the log, has been
\* answered
C23_Witness ==
    /\ pc = "cq_returned"
    /\ ~ret
    /\ ~response.success
    /\ log # << >>
    /\ log[Len(log)].msg = "Dangerous keyword found in query"
    /\ log[Len(log)].detail = <<"D", "R", "O", "P">>

(***************************************************************************)
(* Properties of execute_query                                             *)
(***************************************************************************)

\* C24: with fetch_all=False execute_query returns just the first row: one
\* dictionary, built from the first row, when the query yields at least one
\* row, and the empty list when it yields none.
C24_FirstRowReturned ==
    (pc = "eq_returned" /\ ret /\ retry_attempts >= 1 /\ ~fetch_all)
    => results = IF db_rows >= 1 THEN << 1 >> ELSE << >>

\* C25: for a query that passes validation and retry_attempts = N >= 1,
\* cursor.execute is called at most N times; execute_query returns only
\* after an attempt succeeded, with the rows of that attempt alone (all of
\* them when fetch_all is set); the ConnectionError of the handler is raised
\* only when N attempts failed, and then no list is returned.
C25_BoundedRetry ==
    (ret /\ retry_attempts >= 1)
    => /\ Len(sent) <= retry_attempts
       /\ pc = "eq_returned"
          => /\ attempt < retry_attempts
             /\ Len(sent) = attempt + 1
             /\ IF fetch_all
                THEN results = [i \in 1..db_rows |-> i]
                ELSE Len(results) <= 1
       /\ (pc = "eq_raised" /\ exc.msg = "Query failed after attempts")
          => /\ exc.type = "ConnectionError"
             /\ attempt = retry_attempts
             /\ Len(sent) = retry_attempts
             /\ results = << >>

\* rows returned by an attempt that followed a failed one
C25_Witness ==
    /\ pc = "eq_returned"
    /\ ret
    /\ attempt >= 1
    /\ fetch_all
    /\ results # << >>

AttemptsMade ==
    opened + (IF exc.msg = "Could not connect to Tally" THEN 1 ELSE 0)

\* C27: a failure to establish the connection is retried like a failure of
\* cursor.execute: ConnectionError is raised only after retry_attempts
\* attempts in total.
C27_ConnectFailureRetried ==
    (pc = "eq_raised" /\ exc.type = "ConnectionError")
    => AttemptsMade = retry_attempts

(***************************************************************************)
(* connection.py: get_companies, get_ledgers, get_vouchers;                *)
(* queries.py: TallyQueries.build_dynamic_query                            *)
(***************************************************************************)

PyNone == PyOther("NoneType", <<"N", "o", "n", "e">>)

\* get_companies: the query handed to execute_query
get_companies_query == <<"S", "E", "L", "E", "C", "T", " ", "$", "N", "a", "m", "e", " ", "a", "s", " ", "c", "o", "m", "p", "a", "n", "y", "_", "n", "a", "m", "e", " ", "F", "R", "O", "M", " ", "C", "o", "m", "p", "a", "n", "y">>

\* get_ledgers(company): the query handed to execute_query
get_ledgers_query(company) ==
    <<"S", "E", "L", "E", "C", "T", " ", "$", "N", "a", "m", "e", " ", "a", "s", " ", "l", "e", "d", "g", "e", "r", "_", "n", "a", "m", "e", ",", " ", "$", "P", "a", "r", "e", "n", "t", " ", "a", "s", " ", "p", "a", "r", "e", "n", "t", ",", " ", "$", "C", "l", "o", "s", "i", "n", "g", "B", "a", "l", "a", "n", "c", "e", " ", "a", "s", " ", "c", "l", "o", "s", "i", "n", "g", "_", "b", "a", "l", "a", "n", "c", "e", " ", "F", "R", "O", "M", " ", "L", "e", "d", "g", "e", "r">>
    \o (IF truthy(company)
        THEN <<" ", "W", "H", "E", "R", "E", " ", "$", "C", "o", "m", "p", "a", "n", "y", " ", "=", " ", "'">> \o company.val \o <<"'">>
        ELSE << >>)

\* get_vouchers(voucher_type, date_from, date_to, limit): the query handed
\* to execute_query
get_vouchers_query(voucher_type, date_from, date_to, limit) ==
    <<"\n", " ", " ", " ", " ", " ", " ", " ", " ", "S", "E", "L", "E", "C", "T", " ", "\n", " ", " ", " ", " ", " ", " ", " ", " ", " ", " ", " ", " ", "$", "D", "a", "t", "e", " ", "a", "s", " ", "v", "o", "u", "c", "h", "e", "r", "_", "d", "a", "t", "e", ",", "\n", " ", " ", " ", " ", " ", " ", " ", " ", " ", " ", " ", " ", "$", "V", "o", "u", "c", "h", "e", "r", "N", "u", "m", "b", "e", "r", " ", "a", "s", " ", "v", "o", "u", "c", "h", "e", "r", "_", "n", "u", "m", "b", "e", "r", ",", "\n", " ", " ", " ", " ", " ", " ", " ", " ", " ", " ", " ", " ", "$", "V", "o", "u", "c", "h", "e", "r", "T", "y", "p", "e", " ", "a", "s", " ", "v", "o", "u", "c", "h", "e", "r", "_", "t", "y", "p", "e", ",", "\n", " ", " ", " ", " ", " ", " ", " ", " ", " ", " ", " ", " ", "$", "A", "m", "o", "u", "n", "t", " ", "a", "s", " ", "a", "m", "o", "u", "n", "t", ",", "\n", " ", " ", " ", " ", " ", " ", " ", " ", " ", " ", " ", " ", "$", "R", "e", "f", "e", "r", "e", "n", "c", "e", " ", "a", "s", " ", "r", "e", "f", "e", "r", "e", "n", "c", "e", "\n", " ", " ", " ", " ", " ", " ", " ", " ", "F", "R", "O", "M", " ", "V", "o", "u", "c", "h", "e", "r", "\n", " ", " ", " ", " ", " ", " ", " ", " ", "W", "H", "E", "R", "E", " ", "1", "=", "1", "\n", " ", " ", " ", " ", " ", " ", " ", " ">>
    \o (IF truthy(voucher_type) THEN <<" ", "A", "N", "D", " ", "$", "V", "o", "u", "c", "h", "e", "r", "T", "y", "p", "e", " ", "=", " ", "?">> ELSE << >>)
    \o (IF truthy(date_from) THEN <<" ", "A", "N", "D", " ", "$", "D", "a", "t", "e", " ", ">", "=", " ", "?">> ELSE << >>)
    \o (IF truthy(date_to) THEN <<" ", "A", "N", "D", " ", "$", "D", "a", "t", "e", " ", "<", "=", " ", "?">> ELSE << >>)
    \o <<" ", "O", "R", "D", "E", "R", " ", "B", "Y", " ", "$", "D", "a", "t", "e", " ", "D", "E", "S", "C">>
    \o (IF truthy(limit) THEN <<" ", "L", "I", "M", "I", "T", " ">> \o limit.val ELSE << >>)

\* sep.join(parts)
RECURSIVE join(_, _)
join(sep, parts) ==
    IF parts = << >> THEN << >>
    ELSE IF Len(parts) = 1 THEN parts[1]
    ELSE parts[1] \o sep \o join(sep, Tail(parts))

\* build_dynamic_query(table, fields, conditions, order_by, limit)[0];
\* conditions is the sequence of the items of the dictionary
build_dynamic_query(table, fields, conditions, order_by, limit) ==
    LET select_fields == join(<<",", " ">>, [i \in 1..Len(fields) |-> << "$" >> \o fields[i]])
        given == SelectSeq(conditions, LAMBDA c : c.value # PyNone)
        where_conditions == [i \in 1..Len(given) |-> << "$" >> \o given[i].field \o <<" ", "=", " ", "?">>]
    IN  <<"S", "E", "L", "E", "C", "T", " ">> \o select_fields \o <<" ", "F", "R", "O", "M", " ">> \o table
        \o (IF conditions # << >> /\ where_conditions # << >>
            THEN <<" ", "W", "H", "E", "R", "E", " ">> \o join(<<" ", "A", "N", "D", " ">>, where_conditions)
            ELSE << >>)
        \o (IF truthy(order_by) THEN <<" ", "O", "R", "D", "E", "R", " ", "B", "Y", " ", "$">> \o order_by.val ELSE << >>)
        \o (IF truthy(limit) THEN <<" ", "L", "I", "M", "I", "T", " ">> \o limit.val ELSE << >>)

\* arguments of the builders
CompanyArgs == { PyNone, PyStr(<< >>), PyStr(<<"A", "B", "C">>), PyStr(<<"A", " ", "B">>) }

FilterArgs == { PyNone, PyStr(<<"S", "a", "l", "e", "s">>) }

LimitArgs == { PyNone, PyOther("int", <<"0">>), PyOther("int", <<"1", "0">>) }

TableArgs == { <<"L", "e", "d", "g", "e", "r">>, <<"V", "o", "u", "c", "h", "e", "r">>, <<"C", "o", "m", "p", "a", "n", "y">> }

FieldArgs == { << <<"N", "a", "m", "e">> >>, << <<"N", "a", "m", "e">>, <<"P", "a", "r", "e", "n", "t">> >> }

ConditionArgs ==
    { << >>,
      << [field |-> <<"P", "a", "r", "e", "n", "t">>, value |-> PyNone] >>,
      << [field |-> <<"P", "a", "r", "e", "n", "t">>, value |-> PyStr(<<"A", "s", "s", "e", "t", "s">>)] >>,
      << [field |-> <<"P", "a", "r", "e", "n", "t">>, value |-> PyStr(<<"A", "s", "s", "e", "t", "s">>)],
         [field |-> <<"N", "a", "m", "e">>, value |-> PyStr(<<"C", "a", "s", "h">>)] >> }

OrderArgs == { PyNone, PyStr(<<"N", "a", "m", "e">>) }

\* the queries the data-access layer builds
BuiltQueries ==
    { get_companies_query }
    \cup { get_ledgers_query(c) : c \in CompanyArgs }
    \cup { get_vouchers_query(v, f, t, l) :
             v \in FilterArgs, f \in FilterArgs, t \in FilterArgs, l \in LimitArgs }
    \cup { build_dynamic_query(t, f, c, o, l) :
             t \in TableArgs, f \in FieldArgs, c \in ConditionArgs,
             o \in OrderArgs, l \in LimitArgs }

\* a call of validate_sql_query, as made by execute_query, on a built query
InitBuilt ==
    /\ query \in { PyStr(q) : q \in BuiltQueries }
    /\ pc = "call"
    /\ ret = FALSE
    /\ log = << >>
    /\ params = << >>
    /\ fetch_all = TRUE
    /\ retry_attempts = MaxRetryAttempts
    /\ db_rows = 0
    /\ attempt = 0
    /\ results = << >>
    /\ conn = "none"
    /\ opened = 0
    /\ sent = << >>
    /\ exc = NoException
    /\ SanitizeIdle
    /\ FormatIdle
    /\ StrictIdle
    /\ ServiceIdle
    /\ ParamsIdle

SpecBuilt == InitBuilt /\ [][Next]_vars

\* C28: the queries built by get_companies, get_ledgers, get_vouchers and
\* build_dynamic_query (allow-listed table, non-empty field list) are
\* accepted by validate_sql_query.
C28_BuiltQueriesAccepted ==
    pc = "returned" => ret = TRUE

\* the identifier that follows the keyword FROM standing at position i
IdentifierAfterFrom(s, i) ==
    SubSeq(s, SkipSpace(s, i + 4), WordEnd(s, SkipSpace(s, i + 4)))

\* the positions of s where the keyword FROM, in any case, is followed by
\* whitespace and an identifier
FromKeywords(s) ==
    { i \in 1..Len(s) :
        /\ WordAtI(s, <<"F", "R", "O", "M">>, i)
        /\ SkipSpace(s, i + 4) <= Len(s)
        /\ IsWord(s[SkipSpace(s, i + 4)]) }

\* C29: in every string that validate_sql_query accepts, each identifier
\* that follows a FROM keyword, the first one or a later one, is one of the
\* ten allow-listed table names.
C29_EveryTableAllowListed ==
    (pc = "returned" /\ ret)
    => \A i \in FromKeywords(query.val) :
          IdentifierAfterFrom(query.val, i) \in
             { <<"C", "o", "m", "p", "a", "n", "y">>, <<"L", "e", "d", "g", "e", "r">>, <<"V", "o", "u", "c", "h", "e", "r">>, <<"V", "o", "u", "c", "h", "e", "r", "I", "t", "e", "m">>, <<"S", "t", "o", "c", "k", "I", "t", "e", "m">>,
               <<"S", "t", "o", "c", "k", "G", "r", "o", "u", "p">>, <<"G", "r", "o", "u", "p">>, <<"C", "u", "r", "r", "e", "n", "c", "y">>, <<"G", "o", "D", "o", "w", "n">>, <<"U", "n", "i", "t">> }

(***************************************************************************)
(* security.py: create_safe_query_params                                   *)
(***************************************************************************)

\* isinstance(value, (int, float)); a bool is an int
isinstance_number(value) == value.type \in { "int", "float", "bool" }

\* lines 179-184: the value stored for one item
safe_value(value) ==
    IF isinstance_str(value)
    THEN PyStr(sanitize_input(value, DefaultMaxLength))
    ELSE IF isinstance_number(value)
    THEN value
    ELSE IF value.type # "NoneType"
    THEN PyStr(value.val)
    ELSE value

\* create_safe_query_params(params)
create_safe_query_params(ps) == [k \in DOMAIN ps |-> safe_value(ps[k])]

ParamKeys == { "name", "filter" }

\* values of the parameters: str, int, float, bool, None, list, dict, bytes
ParamValues ==
    { PyStr(<< >>),
      PyStr(<<"C", "a", "s", "h">>),
      PyStr(<<"<", "b", ">", "O", "'", "B", "r", "i", "e", "n", ";", " ", " ", "\\", " ", "\"", "x", "\"", "<", "/", "b", ">", " ">>),
      PyOther("int", <<"1", "0">>),
      PyOther("float", <<"1", ".", "5">>),
      PyOther("bool", <<"T", "r", "u", "e">>),
      PyNone,
      PyOther("list", <<"[", "1", ",", " ", "2", "]">>),
      PyOther("list", <<"[", "'", "C", "a", "s", "h", "'", "]">>),
      PyOther("dict", <<"{", "'", "k", "'", ":", " ", "'", "v", "'", "}">>),
      PyOther("bytes", <<"b", "'", "x", "'">>) }

\* the dictionaries over some of the keys
ParamDicts == UNION { [K -> ParamValues] : K \in SUBSET ParamKeys }

InitParams ==
    /\ raw_params \in ParamDicts
    /\ safe_params = << >>
    /\ pc = "call"
    /\ query = PyStr(<< >>)
    /\ ret = FALSE
    /\ log = << >>
    /\ params = << >>
    /\ fetch_all = TRUE
    /\ retry_attempts = MaxRetryAttempts
    /\ db_rows = 0
    /\ attempt = 0
    /\ results = << >>
    /\ conn = "none"
    /\ opened = 0
    /\ sent = << >>
    /\ exc = NoException
    /\ SanitizeIdle
    /\ FormatIdle
    /\ StrictIdle
    /\ ServiceIdle

CreateSafeQueryParams ==
    /\ pc = "call"
    /\ pc' = "returned"
    /\ safe_params' = create_safe_query_params(raw_params)
    /\ UNCHANGED << query, ret, log, execVars, sanitizeVars, formatVars,
                    strictVars, serviceVars, raw_params >>

NextParams == CreateSafeQueryParams

SpecParams == InitParams /\ [][NextParams]_vars

\* C30: create_safe_query_params returns a dictionary with exactly the keys
\* of its input; no value of type str in it holds one of the characters
\* < > " ' ; \, whatever the type of the input value; int and float values
\* are returned unchanged and None stays None.
C30_ResultSanitized ==
    pc = "returned"
    => /\ DOMAIN safe_params = DOMAIN raw_params
       /\ \A k \in DOMAIN raw_params :
             /\ safe_params[k].type = "str"
                => \A i \in 1..Len(safe_params[k].val) :
                      safe_params[k].val[i] \notin {"<", ">", "\"", "'", ";", "\\"}
             /\ raw_params[k].type \in { "int", "float" }
                => safe_params[k] = raw_params[k]
             /\ raw_params[k].type = "NoneType"
                => safe_params[k] = raw_params[k]
====
